---- MODULE Spec2Model ----
(***************************************************************************)
(* Model of the incentive calculator: the two-pass calculation engine      *)
(* (calculateIncentiveForSubset / calculateDynamicIncentives), its tier,   *)
(* booster and rule helpers, and the configuration it reads.               *)
(*                                                                         *)
(* Numbers.  The code computes in IEEE doubles; the model computes in      *)
(* exact rationals [num, den] (den > 0, lowest terms), so every equality   *)
(* below is an equality of exact values.                                   *)
(*                                                                         *)
(* Values.  A policy row is a function from field names to tagged values   *)
(* <<"string", s>>, <<"boolean", b>>, <<"number", r>>: DOMAIN row is       *)
(* Object.keys(row) and the tag is JavaScript's typeof.                    *)
(***************************************************************************)
EXTENDS Integers, Sequences, FiniteSets, TLC

VARIABLES config, input, pc, resultAll, resultImmediate, result,
          localConfig, storedConfig

vars ==
  <<config, input, pc, resultAll, resultImmediate, result, localConfig,
    storedConfig>>

(***************************************************************************)
(* Bounds                                                                  *)
(***************************************************************************)
MaxPolicies == 5

\* largest subset size the tier resolver is evaluated for on its own
MaxCount == 18

(***************************************************************************)
(* Exact rational arithmetic (stands for the code's number arithmetic)     *)
(***************************************************************************)
Abs(x) == IF x < 0 THEN -x ELSE x

RECURSIVE GCD(_, _)
GCD(a, b) == IF b = 0 THEN a ELSE GCD(b, a % b)

LCM(a, b) == (a \div GCD(a, b)) * b

Rat(n, d) == LET g == GCD(Abs(n), d) IN [num |-> n \div g, den |-> d \div g]

R(i) == [num |-> i, den |-> 1]

Zero == R(0)

RAdd(a, b) ==
  LET l == LCM(a.den, b.den)
  IN  Rat(a.num * (l \div a.den) + b.num * (l \div b.den), l)

RNeg(a) == [num |-> -a.num, den |-> a.den]

RSub(a, b) == RAdd(a, RNeg(b))

RMul(a, b) == Rat(a.num * b.num, a.den * b.den)

RDivInt(a, n) == Rat(a.num, a.den * n)

RLeq(a, b) ==
  LET l == LCM(a.den, b.den)
  IN  a.num * (l \div a.den) <= b.num * (l \div b.den)

RLt(a, b) == RLeq(a, b) /\ a # b

RMax(a, b) == IF RLeq(a, b) THEN b ELSE a

RECURSIVE RSum(_)
RSum(s) == IF s = <<>> THEN Zero ELSE RAdd(Head(s), RSum(Tail(s)))

(***************************************************************************)
(* JavaScript values                                                       *)
(***************************************************************************)
Str(s) == <<"string", s>>

Bool(b) == <<"boolean", b>>

Num(r) == <<"number", r>>

TypeOf(v) == v[1]

\* a === b
StrictEq(a, b) == a[1] = b[1] /\ a[2] = b[2]

\* { ...p, ...q }
Spread(p, q) ==
  [k \in (DOMAIN p) \cup (DOMAIN q) |-> IF k \in DOMAIN q THEN q[k] ELSE p[k]]

\* array.filter(keep), keep given as the set of kept indices
RECURSIVE FilterIdx(_, _, _)
FilterIdx(s, keep, i) ==
  IF i > Len(s) THEN <<>>
  ELSE IF i \in keep THEN <<s[i]>> \o FilterIdx(s, keep, i + 1)
       ELSE FilterIdx(s, keep, i + 1)

\* [...rows].sort((a, b) => b[key] - a[key]): stable, descending by key
RECURSIVE InsertDesc(_, _, _)
InsertDesc(sorted, e, key) ==
  IF sorted = <<>> THEN <<e>>
  ELSE IF Head(sorted)[key] >= e[key]
       THEN <<Head(sorted)>> \o InsertDesc(Tail(sorted), e, key)
       ELSE <<e>> \o sorted

RECURSIVE SortDesc(_, _)
SortDesc(s, key) ==
  IF s = <<>> THEN <<>>
  ELSE InsertDesc(SortDesc(SubSeq(s, 1, Len(s) - 1), key), s[Len(s)], key)


(***************************************************************************)
(* Rule conditions.  A condition string is modelled by its parse:          *)
(*   Eq(id, lit)   the text  id === lit                                    *)
(*   And(args)     a1 && a2 && ...        Or(args)   a1 || a2 || ...       *)
(*   Malformed     a text that is not a JavaScript expression              *)
(*   EmptyCond     the empty text "" of a freshly added rule               *)
(* No literal of the modelled conditions contains a field name as a whole  *)
(* word, so the textual substitution only rewrites the identifiers.        *)
(***************************************************************************)
Eq(id, lit) == [op |-> "eq", id |-> id, lit |-> lit]

And(args) == [op |-> "and", args |-> args]

Or(args) == [op |-> "or", args |-> args]

Malformed == [op |-> "syntax"]

EmptyCond == [op |-> "empty"]

\* Outcome of running the substituted text: "true", "false" or "throw"
\* (an identifier that is no key of the row is left in place and raises a
\* ReferenceError when it is reached; && and || short-circuit).
RECURSIVE EvalExpr(_, _)
RECURSIVE EvalAnd(_, _)
RECURSIVE EvalOr(_, _)
EvalExpr(c, policy) ==
  CASE c.op = "eq" ->
         IF c.id \in DOMAIN policy
         THEN (IF StrictEq(policy[c.id], c.lit) THEN "true" ELSE "false")
         ELSE "throw"
    [] c.op = "and" -> EvalAnd(c.args, policy)
    [] c.op = "or" -> EvalOr(c.args, policy)

EvalAnd(args, policy) ==
  IF args = <<>> THEN "true"
  ELSE LET h == EvalExpr(Head(args), policy)
       IN  IF h = "true" THEN EvalAnd(Tail(args), policy) ELSE h

EvalOr(args, policy) ==
  IF args = <<>> THEN "false"
  ELSE LET h == EvalExpr(Head(args), policy)
       IN  IF h = "false" THEN EvalOr(Tail(args), policy) ELSE h

\* the evaluator whose catch block reports a match
evaluateCondition_FailureMatches(condition, policy) ==
  CASE condition.op = "syntax" -> TRUE
    [] condition.op = "empty" -> FALSE
    [] OTHER -> EvalExpr(condition, policy) # "false"

evaluateCondition(condition, policy) ==
  CASE condition.op = "syntax" -> FALSE
    [] condition.op = "empty" -> FALSE
    [] OTHER -> EvalExpr(condition, policy) = "true"

(***************************************************************************)
(* Metric calculators                                                      *)
(***************************************************************************)
\* eligibility granted by either rider
isStrictlyEligible_Either(policy) ==
  LET hasCI == "ciAbove25L" \in DOMAIN policy
               /\ StrictEq(policy["ciAbove25L"], Bool(TRUE))
      hasADB == "adb" \in DOMAIN policy /\ StrictEq(policy["adb"], Bool(TRUE))
  IN  hasCI \/ hasADB

isStrictlyEligible(policy) ==
  LET hasCI == "ciAbove25L" \in DOMAIN policy
               /\ StrictEq(policy["ciAbove25L"], Bool(TRUE))
      hasADB == "adb" \in DOMAIN policy /\ StrictEq(policy["adb"], Bool(TRUE))
  IN  hasCI /\ hasADB

\* Number(s) || 0 for a string: the empty string converts to 0, a numeral to
\* its value, any other text to NaN, which || replaces by 0
StringToNumberOrZero(s) ==
  CASE s = "2500" -> R(2500)
    [] s = "-40" -> R(-40)
    [] OTHER -> Zero

\* Number(v) || 0
NumberOrZero(policy, key) ==
  IF key \notin DOMAIN policy THEN Zero
  ELSE LET v == policy[key]
       IN  CASE TypeOf(v) = "number" -> v[2]
             [] TypeOf(v) = "boolean" -> IF v[2] THEN R(1) ELSE Zero
             [] TypeOf(v) = "string" -> StringToNumberOrZero(v[2])
             [] OTHER -> Zero

FrequencyIs(policy, f) ==
  "paymentFrequency" \in DOMAIN policy
  /\ StrictEq(policy["paymentFrequency"], Str(f))

\* the switch without its "Half-Yearly" case
calculateAPE_NoHalfYearly(policy) ==
  LET amount == NumberOrZero(policy, "paymentAmount")
  IN  CASE FrequencyIs(policy, "Monthly") -> RMul(amount, R(12))
        [] FrequencyIs(policy, "Quarterly") -> RMul(amount, R(4))
        [] FrequencyIs(policy, "Annual") -> amount
        [] OTHER -> amount

calculateAPE(policy) ==
  LET amount == NumberOrZero(policy, "paymentAmount")
  IN  CASE FrequencyIs(policy, "Monthly") -> RMul(amount, R(12))
        [] FrequencyIs(policy, "Quarterly") -> RMul(amount, R(4))
        [] FrequencyIs(policy, "Half-Yearly") -> RMul(amount, R(2))
        [] FrequencyIs(policy, "Annual") -> amount
        [] OTHER -> amount

(***************************************************************************)
(* Rule applier                                                            *)
(***************************************************************************)
\* the applier charging penalties to eligible policies only
applyCalculationRules_PenaltyIfEligible(policy, rules, isEligible) ==
  LET fired(j) == evaluateCondition(rules[j].condition, policy)
  IN  [payouts |->
         RSum([j \in 1..Len(rules) |->
                 IF fired(j) /\ rules[j].type # "penalty" /\ isEligible
                 THEN R(rules[j].adjustment) ELSE Zero]),
       penalties |->
         RSum([j \in 1..Len(rules) |->
                 IF fired(j) /\ rules[j].type = "penalty" /\ isEligible
                 THEN R(Abs(rules[j].adjustment)) ELSE Zero])]

RECURSIVE applyCalculationRules(_, _, _)
applyCalculationRules(policy, rules, isEligible) ==
  IF rules = <<>> THEN [payouts |-> Zero, penalties |-> Zero]
  ELSE LET rule == Head(rules)
           rest == applyCalculationRules(policy, Tail(rules), isEligible)
       IN  IF evaluateCondition(rule.condition, policy)
           THEN IF rule.type = "penalty"
                THEN [payouts |-> rest.payouts,
                      penalties |-> RAdd(R(Abs(rule.adjustment)), rest.penalties)]
                ELSE IF isEligible
                     THEN [payouts |-> RAdd(R(rule.adjustment), rest.payouts),
                           penalties |-> rest.penalties]
                     ELSE rest
           ELSE rest


(***************************************************************************)
(* Tier resolver and gate                                                  *)
(***************************************************************************)
AboveSlabBonus == 2000

NormalizeVintage(vintage) ==
  IF vintage = "More than 3 Months" THEN "Tier 1" ELSE vintage

\* config.tierTables.find(...): the matching tables in configuration order;
\* the first one is the table used, the empty sequence is `undefined'
findTierTable(cfg, organization, vintage) ==
  LET lookupVintage == NormalizeVintage(vintage)
      tables == cfg.tierTables
  IN  FilterIdx(tables,
                {i \in 1..Len(tables) : tables[i].vintage = lookupVintage}, 1)

\* the universal minimum of three policies
minGateRequired_Min3(vintage) == 3

minGateRequired(vintage) ==
  LET effectiveVintage == NormalizeVintage(vintage)
  IN  IF effectiveVintage = "Tier 2" THEN 5
      ELSE IF effectiveVintage = "0-3 Months" THEN 3
      ELSE 4

gatePassed(vintage, termNOP) == termNOP >= minGateRequired(vintage)

\* the lookup on the table as configured, without sorting it
MatchingTiers_Unsorted(tiers, termNOP) ==
  FilterIdx(tiers, {i \in 1..Len(tiers) : termNOP >= tiers[i].nop}, 1)

\* sortedTiers.find((t) => termNOP >= t.nop): entries matched, best first
MatchingTiers(tiers, termNOP) ==
  LET sortedTiers == SortDesc(tiers, "nop")
  IN  FilterIdx(sortedTiers,
                {i \in 1..Len(sortedTiers) : termNOP >= sortedTiers[i].nop}, 1)

\* the maximum read off the last entry of the table
MaxTierNOP_Last(tiers) == tiers[Len(tiers)].nop

MaxTierNOP(tiers) ==
  CHOOSE m \in {tiers[i].nop : i \in 1..Len(tiers)} :
    \A i \in 1..Len(tiers) : tiers[i].nop <= m

\* the slab lookup without the above-slab logic
SlabIncentive_NoBonus(cfg, organization, vintage, termNOP) ==
  LET found == findTierTable(cfg, organization, vintage)
  IN  IF found = <<>> THEN 0
      ELSE LET matching == MatchingTiers(Head(found).tiers, termNOP)
           IN  IF matching = <<>> THEN 0 ELSE Head(matching).incentive

\* the slab lookup with the above-slab amount replacing the matched amount
SlabIncentive_BonusOnly(cfg, organization, vintage, termNOP) ==
  LET found == findTierTable(cfg, organization, vintage)
  IN  IF found = <<>> THEN 0
      ELSE LET matching == MatchingTiers(Head(found).tiers, termNOP)
           IN  IF matching = <<>> THEN 0
               ELSE IF termNOP > MaxTierNOP(Head(found).tiers)
                    THEN (termNOP - MaxTierNOP(Head(found).tiers))
                         * AboveSlabBonus
                    ELSE Head(matching).incentive

\* step 3 of calculateIncentiveForSubset, reached only when the gate passed
SlabIncentive(cfg, organization, vintage, termNOP) ==
  LET found == findTierTable(cfg, organization, vintage)
  IN  IF found = <<>> THEN 0
      ELSE LET tierTable == Head(found)
               matching == MatchingTiers(tierTable.tiers, termNOP)
           IN  IF matching = <<>> THEN 0
               ELSE LET maxTierNOP == MaxTierNOP(tierTable.tiers)
                    IN  IF termNOP > maxTierNOP
                        THEN Head(matching).incentive
                             + (termNOP - maxTierNOP) * AboveSlabBonus
                        ELSE Head(matching).incentive

(***************************************************************************)
(* Booster resolver                                                        *)
(***************************************************************************)
\* the lookup without the sort: the first configured entry that is reached
AtsMultiplier_Unsorted(cfg, averageTicketSize) ==
  IF "atsTable" \notin DOMAIN cfg THEN Zero
  ELSE LET matching ==
             FilterIdx(cfg.atsTable,
                       {i \in 1..Len(cfg.atsTable) :
                          RLeq(R(cfg.atsTable[i].minAts), averageTicketSize)}, 1)
       IN  IF matching = <<>> THEN Zero ELSE Head(matching).incentive

AtsMultiplier(cfg, averageTicketSize) ==
  IF "atsTable" \notin DOMAIN cfg THEN Zero
  ELSE LET sortedAts == SortDesc(cfg.atsTable, "minAts")
           matching ==
             FilterIdx(sortedAts,
                       {i \in 1..Len(sortedAts) :
                          RLeq(R(sortedAts[i].minAts), averageTicketSize)}, 1)
       IN  IF matching = <<>> THEN Zero ELSE Head(matching).incentive

(***************************************************************************)
(* calculateIncentiveForSubset                                             *)
(***************************************************************************)
TotalAPE(subsetPolicies) ==
  RSum([i \in 1..Len(subsetPolicies) |-> calculateAPE(subsetPolicies[i])])

\* the row whose booster is taken on the base share alone
CalculatedPolicy_BoostOnBase(cfg, policy, baseSharePerPolicy, atsMultiplier) ==
  LET ape == calculateAPE(policy)
      isEligible == isStrictlyEligible(policy)
      applied == applyCalculationRules(policy, cfg.calculationRules, isEligible)
      generatedPreBoost ==
        RSub(RAdd(baseSharePerPolicy, applied.payouts), applied.penalties)
      boosterForPolicy == RMul(baseSharePerPolicy, atsMultiplier)
      totalPolicyValue == RAdd(generatedPreBoost, boosterForPolicy)
  IN  [row |-> Spread(policy,
                      [ape |-> Num(ape),
                       additionalPayout |-> Num(applied.payouts),
                       totalPenalty |-> Num(applied.penalties),
                       totalIncentive |-> Num(totalPolicyValue)]),
       payouts |-> applied.payouts,
       penalties |-> applied.penalties,
       boost |-> boosterForPolicy,
       value |-> totalPolicyValue]

\* the row returned for one policy when the gate passed
CalculatedPolicy(cfg, policy, baseSharePerPolicy, atsMultiplier) ==
  LET ape == calculateAPE(policy)
      isEligible == isStrictlyEligible(policy)
      applied == applyCalculationRules(policy, cfg.calculationRules, isEligible)
      generatedPreBoost ==
        RSub(RAdd(baseSharePerPolicy, applied.payouts), applied.penalties)
      boosterForPolicy == RMul(generatedPreBoost, atsMultiplier)
      totalPolicyValue == RAdd(generatedPreBoost, boosterForPolicy)
  IN  [row |-> Spread(policy,
                      [ape |-> Num(ape),
                       additionalPayout |-> Num(applied.payouts),
                       totalPenalty |-> Num(applied.penalties),
                       totalIncentive |-> Num(totalPolicyValue)]),
       payouts |-> applied.payouts,
       penalties |-> applied.penalties,
       boost |-> boosterForPolicy,
       value |-> totalPolicyValue]

\* the gate-failed row without its annual premium equivalent
GateFailedPolicy_ApeZero(policy) ==
  Spread(policy,
         [ape |-> Num(Zero),
          additionalPayout |-> Num(Zero),
          totalPenalty |-> Num(Zero),
          totalIncentive |-> Num(Zero),
          isDeferred |-> Bool(FALSE)])

\* the row returned for one policy when the gate failed
GateFailedPolicy(policy) ==
  Spread(policy,
         [ape |-> Num(calculateAPE(policy)),
          additionalPayout |-> Num(Zero),
          totalPenalty |-> Num(Zero),
          totalIncentive |-> Num(Zero),
          isDeferred |-> Bool(FALSE)])

\* the count of the strictly eligible policies only
TermNOP_Eligible(subsetPolicies) ==
  Cardinality({i \in 1..Len(subsetPolicies) :
                 isStrictlyEligible(subsetPolicies[i])})

\* const termNOP = subsetPolicies.length
TermNOP(subsetPolicies) == Len(subsetPolicies)

\* the total APE reported as the average
AverageTicketSize_Total(subsetPolicies, termNOP) == TotalAPE(subsetPolicies)

\* const averageTicketSize = termNOP > 0 ? totalAPE / termNOP : 0
AverageTicketSize(subsetPolicies, termNOP) ==
  IF termNOP > 0 THEN RDivInt(TotalAPE(subsetPolicies), termNOP) ELSE Zero

calculateIncentiveForSubset(cfg, inp, subsetPolicies) ==
  LET termNOP == TermNOP(subsetPolicies)
  IN  IF ~gatePassed(inp.vintage, termNOP)
      THEN [policies |-> [i \in 1..termNOP |-> GateFailedPolicy(subsetPolicies[i])],
            totalGenerated |-> Zero,
            baseFromSlab |-> Zero,
            totalPayouts |-> Zero,
            totalPenalties |-> Zero,
            totalBoostAmount |-> Zero,
            averageTicketSize |-> Zero]
      ELSE LET baseFromSlab ==
                 R(SlabIncentive(cfg, inp.organization, inp.vintage, termNOP))
               averageTicketSize == AverageTicketSize(subsetPolicies, termNOP)
               atsMultiplier == AtsMultiplier(cfg, averageTicketSize)
               baseSharePerPolicy ==
                 IF termNOP > 0 THEN RDivInt(baseFromSlab, termNOP) ELSE Zero
               calc == [i \in 1..termNOP |->
                          CalculatedPolicy(cfg, subsetPolicies[i],
                                           baseSharePerPolicy, atsMultiplier)]
           IN  [policies |-> [i \in 1..termNOP |-> calc[i].row],
                totalGenerated |-> RSum([i \in 1..termNOP |-> calc[i].value]),
                baseFromSlab |-> baseFromSlab,
                totalPayouts |-> RSum([i \in 1..termNOP |-> calc[i].payouts]),
                totalPenalties |-> RSum([i \in 1..termNOP |-> calc[i].penalties]),
                totalBoostAmount |-> RSum([i \in 1..termNOP |-> calc[i].boost]),
                averageTicketSize |-> averageTicketSize]

(***************************************************************************)
(* Deferral split (two-pass)                                               *)
(***************************************************************************)
PolicyNameIs(policy, name) ==
  "policyName" \in DOMAIN policy /\ StrictEq(policy["policyName"], Str(name))

isDeferredPolicy(p) ==
  (PolicyNameIs(p, "I-Secure Non Sachet") \/ PolicyNameIs(p, "I-Secure sachet"))
  /\ FrequencyIs(p, "Monthly")

\* the immediate-only run fed with every policy
immediatePolicies_All(allPolicies) == allPolicies

\* allPolicies.filter((p) => !isDeferredPolicy(p))
immediatePolicies(allPolicies) ==
  FilterIdx(allPolicies,
            {i \in 1..Len(allPolicies) : ~isDeferredPolicy(allPolicies[i])}, 1)

\* Math.max(0, totalPotential - totalImmediate), without the clamp
DeferredAmount_NoClamp(totalPotential, totalImmediate) ==
  RSub(totalPotential, totalImmediate)

\* Math.max(0, totalPotential - totalImmediate)
DeferredAmount(totalPotential, totalImmediate) ==
  RMax(Zero, RSub(totalPotential, totalImmediate))

\* the released amount taken from the all-policies run
ReleasedNow_Potential(totalPotential, totalImmediate) == totalPotential

\* const totalReleasedNow = totalImmediate
ReleasedNow(totalPotential, totalImmediate) == totalImmediate

\* the returned rows built on the rows of the immediate-only run
FinalPolicies_FromImmediate(rAll, rImmediate) ==
  [i \in 1..Len(rImmediate.policies) |->
     Spread(rImmediate.policies[i],
            [isDeferred |-> Bool(isDeferredPolicy(rImmediate.policies[i]))])]

\* resultAll.policies.map((p) => ({ ...p, isDeferred: isDeferredPolicy(p) }))
FinalPolicies(rAll, rImmediate) ==
  [i \in 1..Len(rAll.policies) |->
     Spread(rAll.policies[i],
            [isDeferred |-> Bool(isDeferredPolicy(rAll.policies[i]))])]

\* the returned result with the booster amount of the immediate-only run
DeriveResult_ImmediateBoost(rAll, rImmediate) ==
  LET totalPotential == rAll.totalGenerated
      totalImmediate == rImmediate.totalGenerated
  IN  [policies |-> FinalPolicies(rAll, rImmediate),
       totalIncentive |-> ReleasedNow(totalPotential, totalImmediate),
       deferredIncentive |-> DeferredAmount(totalPotential, totalImmediate),
       averageTicketSize |-> rAll.averageTicketSize,
       atsIncentive |-> rImmediate.totalBoostAmount,
       breakdown |->
         [totalBase |-> rAll.baseFromSlab,
          totalPayouts |-> rAll.totalPayouts,
          totalPenalties |-> rAll.totalPenalties,
          totalRate |->
            IF Len(rAll.policies) > 0
            THEN RDivInt(totalPotential, Len(rAll.policies))
            ELSE Zero]]

\* the returned DynamicCalculationResult, from the results of the two runs
DeriveResult(rAll, rImmediate) ==
  LET totalPotential == rAll.totalGenerated
      totalImmediate == rImmediate.totalGenerated
  IN  [policies |-> FinalPolicies(rAll, rImmediate),
       totalIncentive |-> ReleasedNow(totalPotential, totalImmediate),
       deferredIncentive |-> DeferredAmount(totalPotential, totalImmediate),
       averageTicketSize |-> rAll.averageTicketSize,
       atsIncentive |-> rAll.totalBoostAmount,
       breakdown |->
         [totalBase |-> rAll.baseFromSlab,
          totalPayouts |-> rAll.totalPayouts,
          totalPenalties |-> rAll.totalPenalties,
          totalRate |->
            IF Len(rAll.policies) > 0
            THEN RDivInt(totalPotential, Len(rAll.policies))
            ELSE Zero]]


(***************************************************************************)
(* Single-pass calculator (src/client/src/utils/dynamicCalculator.ts), the *)
(* module imported by the user screen.  Its functions carry the prefix sp  *)
(* where the two-pass file declares a function of the same name.           *)
(***************************************************************************)
\* config.tierTables.find(t => t.organization === organization &&
\* t.vintage === vintage): the matching tables in configuration order
spFindTierTable(cfg, organization, vintage) ==
  FilterIdx(cfg.tierTables,
            {i \in 1..Len(cfg.tierTables) :
               /\ cfg.tierTables[i].organization = organization
               /\ cfg.tierTables[i].vintage = vintage}, 1)

MinTierNOP(tiers) ==
  CHOOSE m \in {tiers[i].nop : i \in 1..Len(tiers)} :
    \A i \in 1..Len(tiers) : m <= tiers[i].nop

\* found is the result of spFindTierTable: <<>> stands for undefined
calculateBaseIncentive(found, nop) ==
  IF found = <<>> \/ nop < 3 THEN 0
  ELSE LET tiers == Head(found).tiers
           matching == MatchingTiers(tiers, nop)
       IN  IF tiers = <<>> THEN 0
           ELSE IF nop < MinTierNOP(tiers) THEN 0
           ELSE IF matching = <<>> THEN 0
           ELSE IF nop > MaxTierNOP(tiers)
                THEN Head(matching).incentive
                     + (nop - MaxTierNOP(tiers)) * AboveSlabBonus
                ELSE Head(matching).incentive

\* Slab caps: HRO = 15, Tier 1 = 16, Tier 2 = 17
slabCap(vintage) ==
  IF vintage = "Tier 1" THEN 16 ELSE IF vintage = "Tier 2" THEN 17 ELSE 15

incrementalIncentive(vintage, totalNOP) ==
  IF totalNOP > slabCap(vintage)
  THEN (totalNOP - slabCap(vintage)) * AboveSlabBonus
  ELSE 0

\* the rule applier of the single-pass file: no eligibility test
spApplyCalculationRules(policy, rules) ==
  LET fired(j) == evaluateCondition(rules[j].condition, policy)
  IN  [payouts |->
         RSum([j \in 1..Len(rules) |->
                 IF fired(j) /\ rules[j].type = "payout"
                 THEN R(rules[j].adjustment) ELSE Zero]),
       penalties |->
         RSum([j \in 1..Len(rules) |->
                 IF fired(j) /\ rules[j].type # "payout"
                 THEN R(Abs(rules[j].adjustment)) ELSE Zero])]

\* Deferral check: I-Secure Monthly
spIsDeferred(policy) ==
  PolicyNameIs(policy, "I-Secure") /\ FrequencyIs(policy, "Monthly")

\* the row returned when fewer than three policies were entered
spGateFailedPolicy(policy) ==
  Spread(policy,
         [baseIncentive |-> Num(Zero),
          additionalPayout |-> Num(Zero),
          totalPenalty |-> Num(Zero),
          totalIncentive |-> Num(Zero)])

\* the row returned by step 4
spCalculatedPolicy(cfg, policy) ==
  Spread(policy,
         [ape |-> Num(calculateAPE(policy)),
          additionalPayout |->
            Num(spApplyCalculationRules(policy, cfg.calculationRules).payouts),
          totalPenalty |->
            Num(spApplyCalculationRules(policy, cfg.calculationRules).penalties),
          isDeferred |-> Bool(spIsDeferred(policy))])

ratePerPolicy(earningPool, totalNOP) == RDivInt(earningPool, totalNOP)

\* the release of the whole pool
totalToRelease_Pool(totalNOP, deferredCount, rate) == RMul(R(totalNOP), rate)

totalToRelease(totalNOP, deferredCount, rate) ==
  RMul(R(totalNOP - deferredCount), rate)

totalDeferred(deferredCount, rate) == RMul(R(deferredCount), rate)

spCalculateDynamicIncentives(cfg, inp) ==
  LET totalNOP == Len(inp.policies)
  IN  IF totalNOP < 3
      THEN [policies |->
              [i \in 1..totalNOP |-> spGateFailedPolicy(inp.policies[i])],
            totalIncentive |-> Zero,
            deferredIncentive |-> Zero,
            averageTicketSize |-> Zero,
            atsIncentive |-> Zero,
            breakdown |-> [totalBase |-> Zero, totalPayouts |-> Zero,
                           totalPenalties |-> Zero]]
      ELSE LET found == spFindTierTable(cfg, inp.organization, inp.vintage)
               baseFromSlab == calculateBaseIncentive(found, totalNOP)
               totalBase ==
                 R(baseFromSlab + incrementalIncentive(inp.vintage, totalNOP))
               rows == [i \in 1..totalNOP |->
                          spCalculatedPolicy(cfg, inp.policies[i])]
               totalPayouts == RSum([i \in 1..totalNOP |-> rows[i]["additionalPayout"][2]])
               totalPenalties == RSum([i \in 1..totalNOP |-> rows[i]["totalPenalty"][2]])
               deferredCount ==
                 Cardinality({i \in 1..totalNOP : spIsDeferred(inp.policies[i])})
               averageTicketSize ==
                 RDivInt(RSum([i \in 1..totalNOP |-> rows[i]["ape"][2]]),
                         totalNOP)
               preAtsTotal == RSub(RAdd(totalBase, totalPayouts), totalPenalties)
               atsBoosterAmount ==
                 RMul(preAtsTotal, AtsMultiplier(cfg, averageTicketSize))
               earningPool == RAdd(preAtsTotal, atsBoosterAmount)
               rate == ratePerPolicy(earningPool, totalNOP)
           IN  [policies |-> rows,
                totalIncentive |-> totalToRelease(totalNOP, deferredCount, rate),
                deferredIncentive |-> totalDeferred(deferredCount, rate),
                averageTicketSize |-> averageTicketSize,
                atsIncentive |-> atsBoosterAmount,
                breakdown |-> [totalBase |-> totalBase,
                               totalPayouts |-> totalPayouts,
                               totalPenalties |-> totalPenalties,
                               totalRate |-> rate]]

(***************************************************************************)

(* Configurations                                                          *)
(***************************************************************************)
T(n, inc) == [nop |-> n, incentive |-> inc]

A(min, n, d) == [minAts |-> min, incentive |-> Rat(n, d)]

Rule(id, condition, adjustment, type) ==
  [id |-> id, condition |-> condition, adjustment |-> adjustment, type |-> type]

defaultTierTables ==
  << [id |-> "hro-table", organization |-> "Outsource", vintage |-> "0-3 Months",
      tiers |-> << T(3, 3000), T(4, 4000), T(5, 5200), T(6, 6400), T(7, 7600),
                   T(8, 9000), T(9, 10500), T(10, 12200), T(11, 14000),
                   T(12, 16000), T(13, 18200), T(14, 20600), T(15, 23000) >>],
     [id |-> "tier1-table", organization |-> "Inhouse", vintage |-> "Tier 1",
      tiers |-> << T(4, 4000), T(5, 5000), T(6, 6200), T(7, 7400), T(8, 8600),
                   T(9, 10000), T(10, 11500), T(11, 13200), T(12, 15000),
                   T(13, 17000), T(14, 19200), T(15, 21600), T(16, 24000) >>],
     [id |-> "tier2-table", organization |-> "Inhouse", vintage |-> "Tier 2",
      tiers |-> << T(5, 5000), T(6, 6000), T(7, 7200), T(8, 8400), T(9, 9600),
                   T(10, 11000), T(11, 12500), T(12, 14200), T(13, 16000),
                   T(14, 18000), T(15, 20200), T(16, 22600), T(17, 25000) >>] >>

defaultRules ==
  << Rule("rule-etouch-annual",
          And(<<Eq("policyName", Str("Etouch")),
                Eq("paymentFrequency", Str("Annual"))>>), 1000, "payout"),
     Rule("rule-isecure-annual",
          And(<<Eq("policyName", Str("I-Secure")),
                Eq("paymentFrequency", Str("Annual"))>>), 1500, "payout"),
     Rule("rule-ekyc", Eq("ekyc", Bool(TRUE)), 2000, "payout"),
     Rule("rule-penalty-etouch-no-autopay",
          And(<<Eq("policyName", Str("Etouch")),
                Eq("paymentFrequency", Str("Monthly")),
                Eq("autopay", Bool(FALSE))>>), -1400, "penalty"),
     Rule("rule-penalty-isecure-no-autopay",
          And(<<Eq("policyName", Str("I-Secure")),
                Eq("paymentFrequency", Str("Monthly")),
                Eq("autopay", Bool(FALSE))>>), -2000, "penalty"),
     Rule("rule-spouse", Eq("spouse", Bool(TRUE)), 500, "payout"),
     Rule("rule-bfl", Eq("bfl", Bool(TRUE)), 500, "payout"),
     Rule("rule-superwoman", Eq("superwoman", Bool(TRUE)), 1000, "payout"),
     Rule("rule-sachet-assisted",
          Eq("policyName", Str("I-Secure sachet")), 1000, "payout"),
     Rule("rule-aa",
          And(<<Eq("accountAggregator", Bool(TRUE)),
                Or(<<Eq("policyName", Str("Etouch")),
                     Eq("policyName", Str("I-Secure"))>>)>>), 500, "payout"),
     Rule("rule-limited-pay-5-6",
          Or(<<Eq("paymentType", Str("Limited Pay - 5 years")),
               Eq("paymentType", Str("Limited Pay - 6 years"))>>), 3000, "payout"),
     Rule("rule-limited-pay-10",
          Eq("paymentType", Str("Limited Pay - 10 years")), 2000, "payout"),
     Rule("rule-limited-pay-12",
          Eq("paymentType", Str("Limited Pay - 12 years")), 1250, "payout"),
     Rule("rule-limited-pay-15",
          Eq("paymentType", Str("Limited Pay - 15 years")), 1000, "payout"),
     Rule("rule-ci-rider", Eq("ciAbove25L", Bool(TRUE)), 1000, "payout"),
     Rule("rule-adb-rider", Eq("adb", Bool(TRUE)), 500, "payout") >>

defaultConfig ==
  [tierTables |-> defaultTierTables,
   calculationRules |-> defaultRules,
   month |-> "Jan'26",
   organizations |-> <<"Inhouse", "Outsource">>,
   vintages |-> <<"0-3 Months", "More than 3 Months", "Tier 1", "Tier 2">>,
   atsTable |-> << A(20001, 1, 10), A(25000, 1, 4), A(40000, 2, 5) >>]

\* A configuration after admin edits: tier rows removed and reordered, the
\* I-Secure penalty retargeted to the sachet product, a rule with an unknown
\* identifier, a rule with a broken condition and a freshly added rule.
editedConfig ==
  [tierTables |->
     << [id |-> "hro-table", organization |-> "Outsource",
         vintage |-> "0-3 Months", tiers |-> << T(3, 3000) >>],
        [id |-> "tier1-table", organization |-> "Inhouse", vintage |-> "Tier 1",
         tiers |-> << T(5, 5000), T(4, 4000) >>],
        [id |-> "tier2-table", organization |-> "Inhouse", vintage |-> "Tier 2",
         tiers |-> << T(7, 7200), T(6, 6000) >>] >>,
   calculationRules |->
     << Rule("rule-ekyc", Eq("ekyc", Bool(TRUE)), 2000, "payout"),
        Rule("rule-penalty-isecure-no-autopay",
             And(<<Eq("policyName", Str("I-Secure sachet")),
                   Eq("paymentFrequency", Str("Monthly")),
                   Eq("autopay", Bool(FALSE))>>), -2000, "penalty"),
        Rule("rule-penalty-no-autopay",
             Eq("autopay", Bool(FALSE)), -300, "penalty"),
        Rule("rule-kyc", Eq("kyc", Bool(TRUE)), 900, "penalty"),
        Rule("rule-broken", Malformed, 700, "payout"),
        Rule("rule-new", EmptyCond, 0, "payout"),
        Rule("rule-ci-rider", Eq("ciAbove25L", Bool(TRUE)), 1000, "payout") >>,
   month |-> "Jan'26",
   organizations |-> <<"Inhouse", "Outsource">>,
   vintages |-> <<"0-3 Months", "More than 3 Months", "Tier 1", "Tier 2">>,
   atsTable |-> << A(40000, 2, 5), A(20001, 1, 10), A(25000, 1, 4) >>]

\* A configuration persisted without a booster table and without a Tier 2
\* tier table, whose Tier 1 table does not increase with the count.
legacyConfig ==
  [tierTables |->
     << [id |-> "hro-table", organization |-> "Outsource",
         vintage |-> "0-3 Months", tiers |-> << T(3, 3000), T(4, 4000) >>],
        [id |-> "tier1-table", organization |-> "Inhouse", vintage |-> "Tier 1",
         tiers |-> << T(4, 4000), T(5, 3000) >>] >>,
   calculationRules |->
     << Rule("rule-ekyc", Eq("ekyc", Bool(TRUE)), 2000, "payout"),
        Rule("rule-penalty-no-autopay",
             And(<<Eq("paymentFrequency", Str("Monthly")),
                   Eq("autopay", Bool(FALSE))>>), 1400, "penalty") >>,
   month |-> "Jan'26",
   organizations |-> <<"Inhouse", "Outsource">>,
   vintages |-> <<"0-3 Months", "More than 3 Months", "Tier 1", "Tier 2">>]

\* The default configuration after the admin removed every rule.
noRulesConfig ==
  [tierTables |-> defaultTierTables,
   calculationRules |-> <<>>,
   month |-> "Jan'26",
   organizations |-> <<"Inhouse", "Outsource">>,
   vintages |-> <<"0-3 Months", "More than 3 Months", "Tier 1", "Tier 2">>,
   atsTable |-> << A(20001, 1, 10), A(25000, 1, 4), A(40000, 2, 5) >>]

Configs == {defaultConfig, editedConfig, legacyConfig, noRulesConfig}

Organizations == {"Inhouse", "Outsource"}

Vintages == {"0-3 Months", "More than 3 Months", "Tier 1", "Tier 2"}

(***************************************************************************)
(* Policy rows                                                             *)
(***************************************************************************)
\* createEmptyPolicy under the default criterion columns
createEmptyPolicy(id) ==
  [id |-> Str(id),
   policyName |-> Str("Etouch"),
   paymentType |-> Str("Single Pay"),
   paymentAmount |-> Num(Zero),
   paymentFrequency |-> Str("Monthly"),
   ape |-> Str(""),
   ciAbove25L |-> Bool(FALSE),
   adb |-> Bool(FALSE),
   autopay |-> Bool(FALSE),
   bfl |-> Bool(FALSE),
   superwoman |-> Bool(FALSE),
   spouse |-> Bool(FALSE),
   ekyc |-> Bool(FALSE),
   accountAggregator |-> Bool(FALSE)]

\* The cell edits (updatePolicy) that turn an empty row into a sample row:
\* immediate, strictly eligible, annual, large ticket
EtouchAnnual ==
  [policyName |-> Str("Etouch"), paymentFrequency |-> Str("Annual"),
   paymentAmount |-> Num(R(45000)), ciAbove25L |-> Bool(TRUE),
   adb |-> Bool(TRUE), ekyc |-> Bool(TRUE)]

\* deferred in the two-pass calculator, not eligible, small ticket, no autopay
SachetMonthly ==
  [policyName |-> Str("I-Secure sachet"), paymentFrequency |-> Str("Monthly"),
   paymentAmount |-> Num(R(100))]

\* deferred in the single-pass calculator, not eligible (one rider only),
\* no autopay
ISecureMonthly ==
  [policyName |-> Str("I-Secure"), paymentFrequency |-> Str("Monthly"),
   paymentAmount |-> Num(R(2000)), ciAbove25L |-> Bool(TRUE),
   ekyc |-> Bool(TRUE)]

PolicyEdits == {EtouchAnnual, SachetMonthly, ISecureMonthly}

PolicyBatches ==
  UNION { { [i \in 1..n |-> Spread(createEmptyPolicy(ToString(i)), es[i])] :
            es \in [1..n -> PolicyEdits] } : n \in 0..MaxPolicies }

(***************************************************************************)
(* The calculation as a state machine                                      *)
(***************************************************************************)
NoResult == <<>>

\* the admin screen is not mounted: its local state does not exist
NotMounted == "not mounted"

\* The storage key holds at most one text: the storage is the set of the
\* configurations written under the key, empty when nothing was saved
\* (localStorage.getItem(...) is null)
Null == {}

\* JSON.stringify(newConfig): a configuration holds strings, finite numbers,
\* arrays and objects only, which the text keeps
Stringify(cfg) == {cfg}

\* JSON.parse(saved)
Parse(saved) == CHOOSE cfg \in saved : TRUE

\* the storage from which the provider loaded the configuration
StorageOf(cfg) == IF cfg = defaultConfig THEN Null ELSE Stringify(cfg)

Init ==
  /\ config \in Configs
  /\ \E organization \in Organizations, vintage \in Vintages,
        policies \in PolicyBatches :
       input = [organization |-> organization, vintage |-> vintage,
                policies |-> policies]
  /\ pc = "ready"
  /\ resultAll = NoResult
  /\ resultImmediate = NoResult
  /\ result = NoResult
  /\ localConfig = NotMounted
  /\ storedConfig = StorageOf(config)

\* the caller's configuration after a call that sorts the tiers of the
\* tables of the vintage and the ATS table in place
ConfigAfterCall_SortInPlace(cfg, inp) ==
  IF ~gatePassed(inp.vintage, Len(inp.policies)) THEN cfg
  ELSE LET tables ==
             [i \in 1..Len(cfg.tierTables) |->
                IF cfg.tierTables[i].vintage = NormalizeVintage(inp.vintage)
                THEN [cfg.tierTables[i] EXCEPT
                        !.tiers = SortDesc(cfg.tierTables[i].tiers, "nop")]
                ELSE cfg.tierTables[i]]
       IN  IF "atsTable" \in DOMAIN cfg
           THEN [cfg EXCEPT !.tierTables = tables,
                            !.atsTable = SortDesc(cfg.atsTable, "minAts")]
           ELSE [cfg EXCEPT !.tierTables = tables]

\* the caller's configuration after a call: [...tierTable.tiers].sort and
\* [...config.atsTable].sort work on copies, nothing else is assigned
ConfigAfterCall(cfg, inp) == cfg

\* the caller's session input after a call: filter and map build new arrays,
\* every returned row is a new object ({...p, ...})
InputAfterCall(cfg, inp) == inp

\* one call of calculateDynamicIncentives(config, input): the two runs and
\* the derived result
calculateDynamicIncentives ==
  /\ pc = "ready"
  /\ resultAll' = calculateIncentiveForSubset(config, input, input.policies)
  /\ resultImmediate' =
       calculateIncentiveForSubset(config, input,
                                   immediatePolicies(input.policies))
  /\ result' = DeriveResult(resultAll', resultImmediate')
  /\ pc' = "done"
  /\ config' = ConfigAfterCall(config, input)
  /\ input' = InputAfterCall(config, input)
  /\ UNCHANGED <<localConfig, storedConfig>>

\* a call of calculateDynamicIncentives with the same configuration for a
\* session of another vintage; its result goes to another caller
calculateOther ==
  /\ pc = "done"
  /\ \E vintage \in Vintages \ {input.vintage} :
       config' = ConfigAfterCall(config, [input EXCEPT !.vintage = vintage])
  /\ pc' = "between"
  /\ UNCHANGED <<input, resultAll, resultImmediate, result>>
  /\ UNCHANGED <<localConfig, storedConfig>>

\* a second call of calculateDynamicIncentives with the same arguments
recalculate ==
  /\ pc \in {"done", "between"}
  /\ resultAll' = calculateIncentiveForSubset(config, input, input.policies)
  /\ resultImmediate' =
       calculateIncentiveForSubset(config, input,
                                   immediatePolicies(input.policies))
  /\ result' = DeriveResult(resultAll', resultImmediate')
  /\ pc' = "repeated"
  /\ config' = ConfigAfterCall(config, input)
  /\ input' = InputAfterCall(config, input)
  /\ UNCHANGED <<localConfig, storedConfig>>

Next == calculateDynamicIncentives \/ calculateOther \/ recalculate

Spec == Init /\ [][Next]_vars

(***************************************************************************)
(* The user screen: rows entered, calculated by the single-pass            *)
(* calculator and written back into the editable rows                      *)
(***************************************************************************)
MaxBatch == 18

MaxOthers == 2

\* a rows of the first sample, then b of the second, then c of the third
Batch(a, b, c) ==
  [i \in 1..(a + b + c) |->
     Spread(createEmptyPolicy(ToString(i)),
            IF i <= a THEN EtouchAnnual
            ELSE IF i <= a + b THEN SachetMonthly ELSE ISecureMonthly)]

ScreenBatches ==
  {Batch(a, b, c) : a \in 0..MaxBatch, b \in 0..MaxOthers, c \in 0..MaxOthers}

InitScreen ==
  /\ config \in Configs
  /\ \E organization \in Organizations, vintage \in Vintages,
        policies \in ScreenBatches :
       input = [organization |-> organization, vintage |-> vintage,
                policies |-> policies]
  /\ pc = "ready"
  /\ resultAll = NoResult
  /\ resultImmediate = NoResult
  /\ result = NoResult
  /\ localConfig = NotMounted
  /\ storedConfig = StorageOf(config)

\* the indicator asking for four policies
isEligible_Min4(policies) == Len(policies) >= 4

\* const isEligible = policies.length >= 3
isEligible(policies) == Len(policies) >= 3

\* handleCalculate: setCalculationResult(result); setPolicies(result.policies)
handleCalculate ==
  /\ pc = "ready"
  /\ result' = spCalculateDynamicIncentives(config, input)
  /\ input' = [input EXCEPT !.policies = result'.policies]
  /\ pc' = "done"
  /\ UNCHANGED <<config, resultAll, resultImmediate>>
  /\ UNCHANGED <<localConfig, storedConfig>>

\* the Recalculate button: handleCalculate on the rows written back
handleCalculateAgain ==
  /\ pc = "done"
  /\ result' = spCalculateDynamicIncentives(config, input)
  /\ input' = [input EXCEPT !.policies = result'.policies]
  /\ pc' = "repeated"
  /\ UNCHANGED <<config, resultAll, resultImmediate>>
  /\ UNCHANGED <<localConfig, storedConfig>>

NextScreen == handleCalculate \/ handleCalculateAgain

SpecScreen == InitScreen /\ [][NextScreen]_vars


(***************************************************************************)
(* The admin screen: edits of a local copy of the configuration, saved     *)
(* into the shared configuration and the local storage by handleSave       *)
(***************************************************************************)
MaxSteps == 3

\* parseInt(e.target.value) || 0 of the texts typed into a number cell
TypedNumbers == {7}

TypedConditions == {EmptyCond, Eq("ekyc", Bool(TRUE))}

AdminConfigs == {editedConfig, legacyConfig}

\* the provider's useState initialiser: the saved configuration, if any
LoadConfig(saved) == IF saved = Null THEN defaultConfig ELSE Parse(saved)

\* pc counts the handlers run so far
InitAdmin ==
  /\ config \in AdminConfigs
  /\ storedConfig = StorageOf(config)
  /\ localConfig = config
  /\ pc = 0
  /\ input = [organization |-> "Inhouse", vintage |-> "Tier 1",
              policies |-> <<>>]
  /\ resultAll = NoResult
  /\ resultImmediate = NoResult
  /\ result = NoResult

\* setLocalConfig(newLocal): nothing but the local state is assigned
setLocalConfig(newLocal) ==
  /\ pc < MaxSteps
  /\ pc' = pc + 1
  /\ localConfig' = newLocal
  /\ UNCHANGED <<config, storedConfig, input, resultAll, resultImmediate,
                 result>>

\* localConfig.tierTables.map(t => t.id === tableId ? {...t, tiers} : t)
WithTiers(tableId, newTiers(_)) ==
  [localConfig EXCEPT
     !.tierTables =
        [t \in 1..Len(localConfig.tierTables) |->
           IF localConfig.tierTables[t].id = tableId
           THEN [localConfig.tierTables[t] EXCEPT
                   !.tiers = newTiers(localConfig.tierTables[t].tiers)]
           ELSE localConfig.tierTables[t]]]

\* the handler that saves into the shared configuration as well
updateTier_WriteThrough ==
  \E t \in 1..Len(localConfig.tierTables) :
    \E tierIndex \in 1..Len(localConfig.tierTables[t].tiers),
       field \in {"nop", "incentive"}, value \in TypedNumbers :
      LET newTiers(tiers) == [tiers EXCEPT ![tierIndex][field] = value]
      IN  /\ pc < MaxSteps
          /\ pc' = pc + 1
          /\ localConfig' = WithTiers(localConfig.tierTables[t].id, newTiers)
          /\ config' = localConfig'
          /\ UNCHANGED <<storedConfig, input, resultAll, resultImmediate,
                         result>>

updateTier ==
  \E t \in 1..Len(localConfig.tierTables) :
    \E tierIndex \in 1..Len(localConfig.tierTables[t].tiers),
       field \in {"nop", "incentive"}, value \in TypedNumbers :
      LET newTiers(tiers) == [tiers EXCEPT ![tierIndex][field] = value]
      IN  setLocalConfig(WithTiers(localConfig.tierTables[t].id, newTiers))

removeTier ==
  \E t \in 1..Len(localConfig.tierTables) :
    \E idx \in 1..Len(localConfig.tierTables[t].tiers) :
      LET newTiers(tiers) ==
            FilterIdx(tiers, (1..Len(tiers)) \ {idx}, 1)
      IN  setLocalConfig(WithTiers(localConfig.tierTables[t].id, newTiers))

addTier ==
  \E t \in 1..Len(localConfig.tierTables) :
    LET newTiers(tiers) == Append(tiers, T(0, 0))
    IN  setLocalConfig(WithTiers(localConfig.tierTables[t].id, newTiers))

\* localConfig.atsTable || []
AtsOrEmpty ==
  IF "atsTable" \in DOMAIN localConfig THEN localConfig.atsTable ELSE <<>>

addAtsRow ==
  setLocalConfig(Spread(localConfig,
                        [atsTable |-> Append(AtsOrEmpty, A(0, 0, 1))]))

updateAtsRow ==
  \E index \in 1..Len(AtsOrEmpty), value \in TypedNumbers :
    \/ setLocalConfig(Spread(localConfig,
         [atsTable |-> [AtsOrEmpty EXCEPT ![index].minAts = value]]))
    \/ setLocalConfig(Spread(localConfig,
         [atsTable |-> [AtsOrEmpty EXCEPT ![index].incentive = R(value)]]))

removeAtsRow ==
  \E idx \in 1..Len(AtsOrEmpty) :
    setLocalConfig(Spread(localConfig,
      [atsTable |->
         FilterIdx(AtsOrEmpty, (1..Len(AtsOrEmpty)) \ {idx}, 1)]))

WithRules(newRules) == [localConfig EXCEPT !.calculationRules = newRules]

updateRule ==
  \E idx \in 1..Len(localConfig.calculationRules) :
    \/ \E condition \in TypedConditions :
         setLocalConfig(WithRules([localConfig.calculationRules EXCEPT
                                     ![idx].condition = condition]))
    \/ \E value \in TypedNumbers :
         setLocalConfig(WithRules([localConfig.calculationRules EXCEPT
                                     ![idx].adjustment = value]))
    \/ \E type \in {"payout", "penalty"} :
         setLocalConfig(WithRules([localConfig.calculationRules EXCEPT
                                     ![idx].type = type]))

removeRule ==
  \E idx \in 1..Len(localConfig.calculationRules) :
    setLocalConfig(WithRules(
      FilterIdx(localConfig.calculationRules,
                (1..Len(localConfig.calculationRules)) \ {idx}, 1)))

addRule ==
  setLocalConfig(WithRules(Append(localConfig.calculationRules,
                                  Rule("rule-new", EmptyCond, 0, "payout"))))

updateMonth ==
  \E month \in {"Feb'26"} :
    setLocalConfig([localConfig EXCEPT !.month = month])

\* the provider's updateConfig(newConfig)
updateConfig(newConfig) ==
  /\ config' = newConfig
  /\ storedConfig' = Stringify(newConfig)

handleSave ==
  /\ pc < MaxSteps
  /\ pc' = pc + 1
  /\ updateConfig(localConfig)
  /\ UNCHANGED <<localConfig, input, resultAll, resultImmediate, result>>

\* the page is loaded again: the provider reads the storage and the admin
\* screen takes its local copy from the provider
reload ==
  /\ pc < MaxSteps
  /\ pc' = pc + 1
  /\ config' = LoadConfig(storedConfig)
  /\ localConfig' = config'
  /\ UNCHANGED <<storedConfig, input, resultAll, resultImmediate, result>>

NextAdmin ==
  \/ updateTier \/ removeTier \/ addTier
  \/ addAtsRow \/ updateAtsRow \/ removeAtsRow
  \/ updateRule \/ removeRule \/ addRule
  \/ updateMonth
  \/ handleSave
  \/ reload

SpecAdmin == InitAdmin /\ [][NextAdmin]_vars

(***************************************************************************)

(* The two-pass calculator under tier tables entered in any order          *)
(***************************************************************************)
MaxTiers == 4

MaxTierBatch == 9

\* the bijections of 1..n
Orders(n) ==
  {f \in [1..n -> 1..n] : \A i, j \in 1..n : f[i] = f[j] => i = j}

\* the first rows of the default Tier 1 table, entered in any order
ShortTables ==
  UNION { { [i \in 1..n |-> defaultTierTables[2].tiers[f[i]]] : f \in Orders(n) }
          : n \in 0..MaxTiers }

InitTiers ==
  /\ \E tiers \in ShortTables :
       config = [defaultConfig EXCEPT
                   !.tierTables = << [defaultTierTables[2] EXCEPT
                                        !.tiers = tiers] >>]
  /\ \E vintage \in {"Tier 1", "More than 3 Months"},
        n \in 0..MaxTierBatch :
       input = [organization |-> "Inhouse", vintage |-> vintage,
                policies |-> Batch(n, 0, 0)]
  /\ pc = "ready"
  /\ resultAll = NoResult
  /\ resultImmediate = NoResult
  /\ result = NoResult
  /\ localConfig = NotMounted
  /\ storedConfig = StorageOf(config)

SpecTiers == InitTiers /\ [][Next]_vars

(***************************************************************************)

(* Vocabulary of the properties                                            *)
(***************************************************************************)
Done == pc = "done"

\* the gate thresholds as the specification states them
SpecGate(vintage) ==
  CASE vintage = "0-3 Months" -> 3
    [] vintage = "Tier 1" -> 4
    [] vintage = "More than 3 Months" -> 4
    [] vintage = "Tier 2" -> 5

\* indices of the input rows whose product and frequency make them deferred
DeferredIdx ==
  {i \in 1..Len(input.policies) :
     /\ input.policies[i]["policyName"][2] \in {"I-Secure Non Sachet",
                                                "I-Secure sachet"}
     /\ input.policies[i]["paymentFrequency"][2] = "Monthly"}

ImmediateIdx == (1..Len(input.policies)) \ DeferredIdx

NAll == Len(input.policies)

NImmediate == Cardinality(ImmediateIdx)

\* the two evaluated subsets of a call, with the result of their run
Runs ==
  << [subset |-> input.policies, res |-> resultAll],
     [subset |-> FilterIdx(input.policies, ImmediateIdx, 1),
      res |-> resultImmediate] >>

\* the fallback case of the specification
FallbackCase ==
  /\ NAll >= SpecGate(input.vintage)
  /\ NImmediate < SpecGate(input.vintage)
  /\ NImmediate >= 1

\* sum of a numeric field over the rows with the given indices
FieldSum(rows, idx, field) ==
  RSum([k \in 1..Len(FilterIdx(rows, idx, 1)) |->
          FilterIdx(rows, idx, 1)[k][field][2]])

(***************************************************************************)
(* C1: a subset smaller than the gate of the session's vintage (the empty  *)
(* subset included) yields totalGenerated, baseFromSlab, totalPayouts,     *)
(* totalPenalties and totalBoostAmount of exactly 0 and rows whose         *)
(* additionalPayout, totalPenalty and totalIncentive are 0, while each     *)
(* row's ape is still the policy's annual premium equivalent.              *)
(***************************************************************************)
BelowGateZero(run) ==
  Len(run.subset) < SpecGate(input.vintage) =>
    /\ run.res.totalGenerated = Zero
    /\ run.res.baseFromSlab = Zero
    /\ run.res.totalPayouts = Zero
    /\ run.res.totalPenalties = Zero
    /\ run.res.totalBoostAmount = Zero
    /\ Len(run.res.policies) = Len(run.subset)
    /\ \A i \in 1..Len(run.subset) :
         /\ run.res.policies[i]["additionalPayout"] = Num(Zero)
         /\ run.res.policies[i]["totalPenalty"] = Num(Zero)
         /\ run.res.policies[i]["totalIncentive"] = Num(Zero)
         /\ run.res.policies[i]["ape"] = Num(calculateAPE(run.subset[i]))

C1_GateFailZero == Done => \A k \in 1..2 : BelowGateZero(Runs[k])

C1_Witness ==
  /\ Done
  /\ NAll > 0
  /\ NAll < SpecGate(input.vintage)
  /\ \E i \in 1..NAll : resultAll.policies[i]["ape"] = Num(R(45000))
  /\ \E i \in 1..NAll : resultAll.policies[i]["ape"] = Num(R(1200))

(***************************************************************************)
(* C2: the gate needs 3 policies for "0-3 Months", 4 for "Tier 1" and      *)
(* "More than 3 Months", 5 for "Tier 2"; a subset passes if and only if    *)
(* its size is at least that minimum.  Every sample row has a positive     *)
(* APE, so a run passed the gate exactly when it reports a non-zero        *)
(* average ticket size.                                                    *)
(***************************************************************************)
RunPassedGate(run) == run.res.averageTicketSize # Zero

C2_GateThresholds ==
  Done => \A k \in 1..2 :
            RunPassedGate(Runs[k])
              <=> Len(Runs[k].subset) >= SpecGate(input.vintage)

C2_Witness ==
  /\ Done
  /\ input.vintage = "More than 3 Months"
  /\ NAll = 4
  /\ NImmediate = 3
  /\ RunPassedGate(Runs[1])
  /\ ~RunPassedGate(Runs[2])

(***************************************************************************)
(* C3: the returned deferredIncentive is never negative.                   *)
(***************************************************************************)
C3_DeferredNonNegative == Done => RLeq(Zero, result.deferredIncentive)

\* the deferred policies lower the total, and the difference is clamped
C3_Witness ==
  /\ Done
  /\ RLt(resultAll.totalGenerated, resultImmediate.totalGenerated)
  /\ result.deferredIncentive = Zero


(***************************************************************************)
(* C4 (as stated): whenever the fallback case does not apply,              *)
(* totalIncentive + deferredIncentive equals the total generated by the    *)
(* all-policies run.                                                       *)
(***************************************************************************)
ReleasedPlusDeferred == RAdd(result.totalIncentive, result.deferredIncentive)

C4_SumIsPotential ==
  (Done /\ ~FallbackCase) => ReleasedPlusDeferred = resultAll.totalGenerated

(***************************************************************************)
(* C4 (amended): outside the fallback case, totalIncentive +               *)
(* deferredIncentive is the larger of the all-policies total and the       *)
(* immediate-only total; it equals the all-policies total (which is the    *)
(* sum of the rows' totalIncentive) exactly when the all-policies total    *)
(* is not below the immediate-only total.                                  *)
(***************************************************************************)
C4_SumIsLargerTotal ==
  (Done /\ ~FallbackCase) =>
    /\ ReleasedPlusDeferred =
         RMax(resultAll.totalGenerated, resultImmediate.totalGenerated)
    /\ (ReleasedPlusDeferred = resultAll.totalGenerated
          <=> RLeq(resultImmediate.totalGenerated, resultAll.totalGenerated))
    /\ FieldSum(result.policies, 1..NAll, "totalIncentive")
         = resultAll.totalGenerated

\* both subsets pass the gate and the deferred policies add value
C4_Witness ==
  /\ Done
  /\ ~FallbackCase
  /\ NImmediate >= SpecGate(input.vintage)
  /\ DeferredIdx # {}
  /\ RLt(Zero, result.deferredIncentive)
  /\ RLt(Zero, result.totalIncentive)

(***************************************************************************)
(* C5: outside the fallback case, totalIncentive is the totalGenerated of  *)
(* the run over the non-deferred policies only, and deferredIncentive is   *)
(* max(0, all-policies total - immediate-only total).                      *)
(***************************************************************************)
C5_SplitOutsideFallback ==
  (Done /\ ~FallbackCase) =>
    /\ Len(resultImmediate.policies) = NImmediate
    /\ \A k \in 1..NImmediate :
         resultImmediate.policies[k]["id"]
           = FilterIdx(input.policies, ImmediateIdx, 1)[k]["id"]
    /\ result.totalIncentive = resultImmediate.totalGenerated
    /\ result.deferredIncentive =
         (IF RLeq(resultImmediate.totalGenerated, resultAll.totalGenerated)
          THEN RSub(resultAll.totalGenerated, resultImmediate.totalGenerated)
          ELSE Zero)

C5_Witness ==
  /\ Done
  /\ ~FallbackCase
  /\ DeferredIdx # {}
  /\ NImmediate >= SpecGate(input.vintage)
  /\ result.totalIncentive # resultAll.totalGenerated
  /\ result.deferredIncentive # Zero

(***************************************************************************)
(* C6: in the fallback case the released totalIncentive is the sum, over   *)
(* the non-deferred policies, of their values in the all-policies run.     *)
(***************************************************************************)
ImmediateShareOfPotential ==
  FieldSum(resultAll.policies, ImmediateIdx, "totalIncentive")

C6_FallbackReleased ==
  (Done /\ FallbackCase) => result.totalIncentive = ImmediateShareOfPotential

(***************************************************************************)
(* C7: in the fallback case deferredIncentive is the all-policies total    *)
(* minus the sum of the immediate policies' values in the all-policies     *)
(* run.                                                                    *)
(***************************************************************************)
C7_FallbackDeferred ==
  (Done /\ FallbackCase) =>
    result.deferredIncentive =
      RSub(resultAll.totalGenerated, ImmediateShareOfPotential)

(***************************************************************************)
(* C8: the returned list has one row per input policy in input order;      *)
(* each row's totalIncentive is the policy's value in the all-policies     *)
(* run, and its isDeferred flag is true exactly for the deferred policies. *)
(***************************************************************************)
C8_RowsFromAllRun ==
  Done =>
    /\ Len(result.policies) = NAll
    /\ \A i \in 1..NAll :
         /\ result.policies[i]["id"] = input.policies[i]["id"]
         /\ result.policies[i]["totalIncentive"]
              = resultAll.policies[i]["totalIncentive"]
         /\ result.policies[i]["isDeferred"] = Bool(i \in DeferredIdx)

\* a batch whose first row is deferred and whose immediate rows are worth
\* something else in the immediate-only run
C8_Witness ==
  /\ Done
  /\ 1 \in DeferredIdx
  /\ NImmediate >= SpecGate(input.vintage)
  /\ result.policies[1]["totalIncentive"] # Num(Zero)
  /\ \E k \in 1..NImmediate :
       resultImmediate.policies[k]["totalIncentive"]
         # result.policies[k + 1]["totalIncentive"]


(***************************************************************************)
(* Vocabulary of the tier claims                                           *)
(***************************************************************************)
\* the tiers of the table the lookup selects; empty when no table is found
SelectedTiers ==
  LET found == findTierTable(config, input.organization, input.vintage)
  IN  IF found = <<>> THEN <<>> ELSE Head(found).tiers

TableFound == findTierTable(config, input.organization, input.vintage) # <<>>

Thresholds == {SelectedTiers[i].nop : i \in 1..Len(SelectedTiers)}

\* the thresholds of the selected table that do not exceed n
ThresholdsUpTo(n) == {t \in Thresholds : t <= n}

Largest(S) == CHOOSE m \in S : \A t \in S : t <= m

\* the incentive of the entry with threshold t (thresholds are distinct)
IncentiveAt(t) ==
  LET i == CHOOSE j \in 1..Len(SelectedTiers) : SelectedTiers[j].nop = t
  IN  SelectedTiers[i].incentive

\* policies of a subset of size n in excess of the table's largest threshold
Excess(n) ==
  IF Thresholds # {} /\ n > Largest(Thresholds)
  THEN n - Largest(Thresholds) ELSE 0

(***************************************************************************)
(* C9: when the gate passes, the slab amount before any above-cap bonus is *)
(* the incentive of the entry with the largest threshold not exceeding the *)
(* subset size; it is 0 when the size is below every threshold and 0 when  *)
(* no tier table is found.                                                 *)
(***************************************************************************)
SlabIsHighestReached(run) ==
  LET n == Len(run.subset)
  IN  n >= SpecGate(input.vintage) =>
        IF ThresholdsUpTo(n) = {}
        THEN run.res.baseFromSlab = Zero
        ELSE RSub(run.res.baseFromSlab, R(Excess(n) * 2000))
               = R(IncentiveAt(Largest(ThresholdsUpTo(n))))

C9_SlabLookup == Done => \A k \in 1..2 : SlabIsHighestReached(Runs[k])

\* an unordered table in which the size lies between two thresholds' ranks
C9_Witness ==
  /\ Done
  /\ NAll >= SpecGate(input.vintage)
  /\ Len(SelectedTiers) >= 2
  /\ SelectedTiers[1].nop > SelectedTiers[2].nop
  /\ NAll = SelectedTiers[2].nop
  /\ resultAll.baseFromSlab = R(SelectedTiers[2].incentive)
  /\ resultAll.baseFromSlab # Zero

\* the gate passes but the size is below every threshold of the table
C9_WitnessBelowAll ==
  /\ Done
  /\ NAll >= SpecGate(input.vintage)
  /\ TableFound
  /\ ThresholdsUpTo(NAll) = {}
  /\ resultAll.baseFromSlab = Zero

\* the gate passes and no table is found
C9_WitnessNoTable ==
  /\ Done
  /\ NAll >= SpecGate(input.vintage)
  /\ ~TableFound
  /\ resultAll.baseFromSlab = Zero

(***************************************************************************)
(* C10: when the subset size exceeds the largest threshold of the selected *)
(* table, baseFromSlab is the incentive of that largest entry plus exactly *)
(* 2000 per policy in excess; otherwise no bonus is added.                 *)
(***************************************************************************)
AboveCapBonus(run) ==
  LET n == Len(run.subset)
  IN  (n >= SpecGate(input.vintage) /\ ThresholdsUpTo(n) # {}) =>
        IF n > Largest(Thresholds)
        THEN run.res.baseFromSlab
               = R(IncentiveAt(Largest(Thresholds))
                   + 2000 * (n - Largest(Thresholds)))
        ELSE run.res.baseFromSlab = R(IncentiveAt(Largest(ThresholdsUpTo(n))))

C10_AboveCap == Done => \A k \in 1..2 : AboveCapBonus(Runs[k])

\* two policies above the cap of a one-entry table
C10_Witness ==
  /\ Done
  /\ Thresholds # {}
  /\ NAll >= SpecGate(input.vintage)
  /\ NAll = Largest(Thresholds) + 2
  /\ resultAll.baseFromSlab = R(IncentiveAt(Largest(Thresholds)) + 4000)


(***************************************************************************)
(* C11 (as stated): for the session's vintage and any configured tier      *)
(* table, the slab amount resolved for m is at most the slab amount        *)
(* resolved for n whenever m <= n.  The immediate-only subset is never     *)
(* larger than the full batch, so the two runs of a call are such a pair.  *)
(***************************************************************************)
\* the resolver's amount for every subset size up to MaxCount
SlabBySize ==
  [n \in 0..MaxCount |->
     SlabIncentive(config, input.organization, input.vintage, n)]

SlabNeverDecreases ==
  /\ RLeq(resultImmediate.baseFromSlab, resultAll.baseFromSlab)
  /\ \A n \in 1..MaxCount : SlabBySize[n - 1] <= SlabBySize[n]

C11_Monotonic == Done => SlabNeverDecreases

(***************************************************************************)
(* C11 (amended): the same, for every tier table whose incentives are      *)
(* non-negative and do not decrease as the threshold grows.                *)
(***************************************************************************)
NonDecreasingTable ==
  \A i, j \in 1..Len(SelectedTiers) :
    /\ SelectedTiers[i].incentive >= 0
    /\ SelectedTiers[i].nop <= SelectedTiers[j].nop
         => SelectedTiers[i].incentive <= SelectedTiers[j].incentive

C11_MonotonicOnOrderedTables ==
  (Done /\ NonDecreasingTable) => SlabNeverDecreases

\* both runs pass the gate and the larger one resolves a larger amount
C11_Witness ==
  /\ Done
  /\ NonDecreasingTable
  /\ NImmediate >= SpecGate(input.vintage)
  /\ NImmediate < NAll
  /\ RLt(resultImmediate.baseFromSlab, resultAll.baseFromSlab)
  /\ SlabBySize[MaxCount - 1] < SlabBySize[MaxCount]


(***************************************************************************)
(* C12: the tier table used is the one of the session's organization and   *)
(* normalized vintage ("More than 3 Months" counts as "Tier 1"); a table   *)
(* of another organization is never used.                                  *)
(***************************************************************************)
\* the configured tables of the session's organization and vintage
SessionTables ==
  LET wanted == IF input.vintage = "More than 3 Months" THEN "Tier 1"
                ELSE input.vintage
  IN  FilterIdx(config.tierTables,
                {i \in 1..Len(config.tierTables) :
                   /\ config.tierTables[i].organization = input.organization
                   /\ config.tierTables[i].vintage = wanted}, 1)

\* the slab amount a table yields for a subset of size n
SlabOfTiers(tiers, n) ==
  LET reached == {i \in 1..Len(tiers) : tiers[i].nop <= n}
      best == CHOOSE i \in reached :
                \A j \in reached : tiers[j].nop <= tiers[i].nop
      top == CHOOSE i \in 1..Len(tiers) :
               \A j \in 1..Len(tiers) : tiers[j].nop <= tiers[i].nop
  IN  IF reached = {} THEN 0
      ELSE tiers[best].incentive
           + (IF n > tiers[top].nop THEN (n - tiers[top].nop) * 2000 ELSE 0)

SlabFromSessionTable(run) ==
  Len(run.subset) >= SpecGate(input.vintage) =>
    run.res.baseFromSlab =
      (IF SessionTables = <<>> THEN Zero
       ELSE R(SlabOfTiers(Head(SessionTables).tiers, Len(run.subset))))

C12_TableOfOrganization ==
  Done => \A k \in 1..2 : SlabFromSessionTable(Runs[k])

(***************************************************************************)
(* C13: the gate decision and the slab amount depend only on the size of   *)
(* the evaluated subset: a subset of the same size whose rows differ in    *)
(* the rider flags, the eKYC flag and the payment amount gets the same     *)
(* gate decision and the same baseFromSlab.                                *)
(***************************************************************************)
\* the row with both rider flags and the eKYC flag inverted and another amount
OtherRow(policy) ==
  Spread(policy,
         [ciAbove25L |-> Bool(~policy["ciAbove25L"][2]),
          adb |-> Bool(~policy["adb"][2]),
          ekyc |-> Bool(~policy["ekyc"][2]),
          paymentAmount |-> Num(R(700))])

OtherSubset(subset) == [i \in 1..Len(subset) |-> OtherRow(subset[i])]

\* the run of the calculator over the other subset of the same size
OtherRun(run) ==
  calculateIncentiveForSubset(config, input, OtherSubset(run.subset))

SameGateAndSlab(run) ==
  /\ OtherRun(run).baseFromSlab = run.res.baseFromSlab
  /\ OtherRun(run).averageTicketSize # Zero <=> RunPassedGate(run)

C13_CountOnly == Done => \A k \in 1..2 : SameGateAndSlab(Runs[k])

\* a passing batch with eligible and ineligible rows whose counterpart is
\* worth a different total
C13_Witness ==
  /\ Done
  /\ RunPassedGate(Runs[1])
  /\ resultAll.baseFromSlab # Zero
  /\ \E i, j \in 1..NAll :
       /\ isStrictlyEligible(input.policies[i])
       /\ ~isStrictlyEligible(input.policies[j])
  /\ OtherRun(Runs[1]).totalGenerated # resultAll.totalGenerated
  /\ OtherRun(Runs[1]).baseFromSlab = resultAll.baseFromSlab


(***************************************************************************)
(* C14: the penalties of a policy are the sum of |adjustment| over all     *)
(* penalty rules whose condition evaluates true for it, whether or not     *)
(* the policy is strictly eligible; every matching penalty rule            *)
(* contributes, not only the first.                                        *)
(***************************************************************************)
\* the indices of the rules of the given kind whose condition holds of the row
FiredRules(policy, isPenalty) ==
  {j \in 1..Len(config.calculationRules) :
     /\ (config.calculationRules[j].type = "penalty") = isPenalty
     /\ evaluateCondition(config.calculationRules[j].condition, policy)}

PenaltySum(policy) ==
  RSum([j \in 1..Len(config.calculationRules) |->
          IF j \in FiredRules(policy, TRUE)
          THEN R(Abs(config.calculationRules[j].adjustment)) ELSE Zero])

BothRiders(policy) ==
  policy["ciAbove25L"] = Bool(TRUE) /\ policy["adb"] = Bool(TRUE)

PenaltiesOfRun(run) ==
  RunPassedGate(run) =>
    \A i \in 1..Len(run.subset) :
      /\ run.res.policies[i]["totalPenalty"] = Num(PenaltySum(run.subset[i]))
      /\ \A e \in BOOLEAN :
           applyCalculationRules(run.subset[i], config.calculationRules,
                                 e).penalties = PenaltySum(run.subset[i])

C14_PenaltiesRegardless == Done => \A k \in 1..2 : PenaltiesOfRun(Runs[k])

\* an ineligible row charged for two penalty rules next to an eligible row
\* charged for one
C14_Witness ==
  /\ Done
  /\ RunPassedGate(Runs[1])
  /\ \E i, j \in 1..NAll :
       /\ ~BothRiders(input.policies[i])
       /\ Cardinality(FiredRules(input.policies[i], TRUE)) >= 2
       /\ RLt(Zero, resultAll.policies[i]["totalPenalty"][2])
       /\ BothRiders(input.policies[j])
       /\ FiredRules(input.policies[j], TRUE) # {}
       /\ RLt(Zero, resultAll.policies[j]["totalPenalty"][2])

(***************************************************************************)
(* C15: a policy that is not strictly eligible (ciAbove25L and adb not     *)
(* both true) has additionalPayout 0 whatever payout rules it matches; a   *)
(* strictly eligible policy has the sum of the adjustments of all payout   *)
(* rules whose condition evaluates true.                                   *)
(***************************************************************************)
PayoutSum(policy) ==
  RSum([j \in 1..Len(config.calculationRules) |->
          IF j \in FiredRules(policy, FALSE)
          THEN R(config.calculationRules[j].adjustment) ELSE Zero])

PayoutsOfRun(run) ==
  RunPassedGate(run) =>
    \A i \in 1..Len(run.subset) :
      run.res.policies[i]["additionalPayout"] =
        Num(IF BothRiders(run.subset[i]) THEN PayoutSum(run.subset[i])
            ELSE Zero)

C15_PayoutsIfEligible == Done => \A k \in 1..2 : PayoutsOfRun(Runs[k])

\* a row with one rider only that matches a payout rule and gets nothing,
\* next to an eligible row paid for two rules
C15_Witness ==
  /\ Done
  /\ RunPassedGate(Runs[1])
  /\ \E i, j \in 1..NAll :
       /\ input.policies[i]["ciAbove25L"] = Bool(TRUE)
       /\ input.policies[i]["adb"] = Bool(FALSE)
       /\ FiredRules(input.policies[i], FALSE) # {}
       /\ RLt(Zero, PayoutSum(input.policies[i]))
       /\ resultAll.policies[i]["additionalPayout"] = Num(Zero)
       /\ BothRiders(input.policies[j])
       /\ Cardinality(FiredRules(input.policies[j], FALSE)) >= 2
       /\ RLt(Zero, resultAll.policies[j]["additionalPayout"][2])


(***************************************************************************)
(* C16: when the gate passes for a subset of n policies, each row's        *)
(* totalIncentive is (baseFromSlab / n + payouts - penalties) x            *)
(* (1 + ATS multiplier) and totalGenerated is the sum of the rows; when no *)
(* rule matches any policy and no policy is deferred, every row is         *)
(* (baseFromSlab / n) x (1 + multiplier) and the result's totalIncentive   *)
(* is their sum.                                                           *)
(***************************************************************************)
\* the entries of the ATS table whose minimum the ticket size reaches
ReachedAts(ats) ==
  IF "atsTable" \in DOMAIN config
  THEN {i \in 1..Len(config.atsTable) : RLeq(R(config.atsTable[i].minAts), ats)}
  ELSE {}

\* the incentive of the reached entry with the largest minimum, 0 without one
ExpectedMultiplier(ats) ==
  IF ReachedAts(ats) = {} THEN Zero
  ELSE config.atsTable[CHOOSE i \in ReachedAts(ats) :
                         \A j \in ReachedAts(ats) :
                           config.atsTable[j].minAts
                             <= config.atsTable[i].minAts].incentive

OnePlusMultiplier(run) ==
  RAdd(R(1), ExpectedMultiplier(run.res.averageTicketSize))

BaseShare(run) == RDivInt(run.res.baseFromSlab, Len(run.subset))

RowFormula(run) ==
  /\ \A i \in 1..Len(run.subset) :
       run.res.policies[i]["totalIncentive"][2] =
         RMul(RSub(RAdd(BaseShare(run),
                        run.res.policies[i]["additionalPayout"][2]),
                   run.res.policies[i]["totalPenalty"][2]),
              OnePlusMultiplier(run))
  /\ run.res.totalGenerated =
       FieldSum(run.res.policies, 1..Len(run.subset), "totalIncentive")

NoRuleFires ==
  \A i \in 1..NAll :
    FiredRules(input.policies[i], TRUE) \cup FiredRules(input.policies[i], FALSE)
      = {}

PlainBatch ==
  (NoRuleFires /\ DeferredIdx = {}) =>
    /\ \A i \in 1..NAll :
         result.policies[i]["totalIncentive"][2] =
           RMul(BaseShare(Runs[1]), OnePlusMultiplier(Runs[1]))
    /\ result.totalIncentive =
         FieldSum(result.policies, 1..NAll, "totalIncentive")

C16_RowFormula ==
  Done =>
    /\ \A k \in 1..2 : RunPassedGate(Runs[k]) => RowFormula(Runs[k])
    /\ RunPassedGate(Runs[1]) => PlainBatch

\* a passing batch with a booster, a paid row and a charged row
C16_Witness ==
  /\ Done
  /\ RunPassedGate(Runs[1])
  /\ resultAll.baseFromSlab # Zero
  /\ ExpectedMultiplier(resultAll.averageTicketSize) # Zero
  /\ \E i, j \in 1..NAll :
       /\ RLt(Zero, resultAll.policies[i]["additionalPayout"][2])
       /\ RLt(Zero, resultAll.policies[j]["totalPenalty"][2])
       /\ RLt(resultAll.policies[j]["totalIncentive"][2], Zero)

\* a passing batch without deferred rows on which no rule fires
C16_WitnessPlain ==
  /\ Done
  /\ RunPassedGate(Runs[1])
  /\ NoRuleFires /\ DeferredIdx = {}
  /\ resultAll.baseFromSlab # Zero
  /\ ExpectedMultiplier(resultAll.averageTicketSize) # Zero
  /\ RLt(Zero, result.totalIncentive)

(***************************************************************************)
(* C17: the ATS multiplier is the incentive of the atsTable entry with the *)
(* largest minAts that does not exceed the average ticket size, whatever   *)
(* the order of the entries; it is 0 when config.atsTable is absent or the *)
(* average ticket size is below every minAts.                              *)
(***************************************************************************)
BoostOfRun(run) ==
  /\ AtsMultiplier(config, run.res.averageTicketSize)
       = ExpectedMultiplier(run.res.averageTicketSize)
  /\ run.res.totalBoostAmount =
       RMul(RSub(RAdd(run.res.baseFromSlab, run.res.totalPayouts),
                 run.res.totalPenalties),
            ExpectedMultiplier(run.res.averageTicketSize))

C17_AtsMultiplier ==
  Done => \A k \in 1..2 : RunPassedGate(Runs[k]) => BoostOfRun(Runs[k])

\* a table out of order: the selected entry comes after a reached entry with
\* a smaller minimum and a different incentive
C17_Witness ==
  /\ Done
  /\ RunPassedGate(Runs[1])
  /\ resultAll.totalBoostAmount # Zero
  /\ \E i, j \in ReachedAts(resultAll.averageTicketSize) :
       /\ i < j
       /\ config.atsTable[i].minAts < config.atsTable[j].minAts
       /\ config.atsTable[i].incentive # config.atsTable[j].incentive
       /\ ExpectedMultiplier(resultAll.averageTicketSize)
            = config.atsTable[j].incentive

\* a passing batch under a configuration without atsTable
C17_WitnessAbsent ==
  /\ Done
  /\ RunPassedGate(Runs[1])
  /\ "atsTable" \notin DOMAIN config
  /\ resultAll.baseFromSlab # Zero
  /\ resultAll.totalBoostAmount = Zero

\* a passing batch whose average ticket size is below every minAts
C17_WitnessBelowAll ==
  /\ Done
  /\ RunPassedGate(Runs[1])
  /\ "atsTable" \in DOMAIN config
  /\ ReachedAts(resultAll.averageTicketSize) = {}
  /\ resultAll.baseFromSlab # Zero
  /\ resultAll.totalBoostAmount = Zero


(***************************************************************************)
(* C18: the averageTicketSize reported for a batch is the sum of           *)
(* calculateAPE over its policies divided by their number, and is 0 only   *)
(* when the batch is empty.                                                *)
(***************************************************************************)
MeanAPE(subset) ==
  IF Len(subset) = 0 THEN Zero
  ELSE RDivInt(RSum([i \in 1..Len(subset) |-> calculateAPE(subset[i])]),
               Len(subset))

C18_AverageOfBatch ==
  Done =>
    /\ \A k \in 1..2 :
         /\ Runs[k].res.averageTicketSize = MeanAPE(Runs[k].subset)
         /\ Runs[k].res.averageTicketSize = Zero => Len(Runs[k].subset) = 0
    /\ result.averageTicketSize = MeanAPE(input.policies)

(***************************************************************************)
(* C18 (amended): the averageTicketSize reported for a batch that reaches  *)
(* the gate of the vintage is the sum of calculateAPE over its policies    *)
(* divided by their number; for a batch below the gate, empty or not, it   *)
(* is 0.  The result of a call reports the value of the all-policies       *)
(* batch.                                                                  *)
(***************************************************************************)
AverageOfRun(run) ==
  run.res.averageTicketSize =
    (IF Len(run.subset) >= SpecGate(input.vintage) THEN MeanAPE(run.subset)
     ELSE Zero)

C18_AverageWhenGatePassed ==
  Done =>
    /\ \A k \in 1..2 : AverageOfRun(Runs[k])
    /\ result.averageTicketSize = resultAll.averageTicketSize

\* a passing batch of rows with different APE whose immediate part is not
\* empty and below the gate
C18_Witness ==
  /\ Done
  /\ NAll >= SpecGate(input.vintage)
  /\ NImmediate >= 1 /\ NImmediate < SpecGate(input.vintage)
  /\ \E i, j \in 1..NAll :
       calculateAPE(input.policies[i]) # calculateAPE(input.policies[j])
  /\ RLt(Zero, result.averageTicketSize)
  /\ result.averageTicketSize # TotalAPE(input.policies)
  /\ resultImmediate.averageTicketSize = Zero


(***************************************************************************)
(* calculateAPE on its own: one row of any frequency and any amount        *)
(***************************************************************************)
Missing == "missing"

Frequencies ==
  {"Monthly", "Quarterly", "Half-Yearly", "Annual", "Weekly", "monthly", "",
   Missing}

Amounts ==
  {<<Missing>>, Num(Zero), Num(R(2500)), Num(R(100)), Num(Rat(5, 2)),
   Num(R(-40)), Str("abc"), Str(""), Str("2500"), Str("-40")}

\* the row with the given cells; a missing cell is a key the row does not have
ApeRow(frequency, amount) ==
  LET base == createEmptyPolicy("1")
      keys == (DOMAIN base)
                \ ((IF frequency = Missing THEN {"paymentFrequency"} ELSE {})
                   \cup (IF amount = <<Missing>> THEN {"paymentAmount"} ELSE {}))
  IN  [k \in keys |->
         CASE k = "paymentFrequency" -> Str(frequency)
           [] k = "paymentAmount" -> amount
           [] OTHER -> base[k]]

InitAPE ==
  /\ config = defaultConfig
  /\ \E frequency \in Frequencies, amount \in Amounts :
       input = [organization |-> "Inhouse", vintage |-> "Tier 1",
                policies |-> <<ApeRow(frequency, amount)>>]
  /\ pc = "ready"
  /\ resultAll = NoResult
  /\ resultImmediate = NoResult
  /\ result = NoResult
  /\ localConfig = NotMounted
  /\ storedConfig = StorageOf(config)

\* one call of calculateAPE(policy) on the row
applyCalculateAPE ==
  /\ pc = "ready"
  /\ result' = [ape |-> calculateAPE(input.policies[1])]
  /\ pc' = "ape"
  /\ UNCHANGED <<config, input, resultAll, resultImmediate>>
  /\ UNCHANGED <<localConfig, storedConfig>>

NextAPE == applyCalculateAPE

SpecAPE == InitAPE /\ [][NextAPE]_vars

(***************************************************************************)
(* C19: calculateAPE returns paymentAmount x 12 for "Monthly", x 4 for     *)
(* "Quarterly", x 2 for "Half-Yearly" and x 1 for "Annual" or any other or *)
(* missing frequency; a missing or non-numeric paymentAmount counts as 0.  *)
(***************************************************************************)
TheRow == input.policies[1]

FrequencyFactor ==
  IF "paymentFrequency" \notin DOMAIN TheRow THEN 1
  ELSE CASE TheRow["paymentFrequency"] = Str("Monthly") -> 12
         [] TheRow["paymentFrequency"] = Str("Quarterly") -> 4
         [] TheRow["paymentFrequency"] = Str("Half-Yearly") -> 2
         [] OTHER -> 1

\* the amount as a number: numerals count by their value, other text as 0
AmountOrZero ==
  IF "paymentAmount" \notin DOMAIN TheRow THEN Zero
  ELSE CASE TheRow["paymentAmount"][1] = "number" -> TheRow["paymentAmount"][2]
         [] TheRow["paymentAmount"] = Str("2500") -> R(2500)
         [] TheRow["paymentAmount"] = Str("-40") -> R(-40)
         [] OTHER -> Zero

C19_APE ==
  pc = "ape" => result.ape = RMul(AmountOrZero, R(FrequencyFactor))

\* a half-yearly row with a fractional amount
C19_Witness ==
  /\ pc = "ape"
  /\ {"paymentFrequency", "paymentAmount"} \subseteq DOMAIN TheRow
  /\ TheRow["paymentFrequency"] = Str("Half-Yearly")
  /\ TheRow["paymentAmount"] = Num(Rat(5, 2))
  /\ result.ape = R(5)

\* a monthly row whose amount is text that is no numeral
C19_WitnessNonNumeric ==
  /\ pc = "ape"
  /\ {"paymentFrequency", "paymentAmount"} \subseteq DOMAIN TheRow
  /\ TheRow["paymentFrequency"] = Str("Monthly")
  /\ TheRow["paymentAmount"] = Str("abc")
  /\ result.ape = Zero

\* a row without frequency and a row without amount
C19_WitnessMissing ==
  /\ pc = "ape"
  /\ \/ /\ "paymentFrequency" \notin DOMAIN TheRow
        /\ "paymentAmount" \in DOMAIN TheRow
        /\ TheRow["paymentAmount"] = Num(R(2500))
        /\ result.ape = R(2500)
     \/ /\ "paymentAmount" \notin DOMAIN TheRow
        /\ result.ape = Zero


(***************************************************************************)
(* C20: calculateDynamicIncentives is deterministic and stateless: a call  *)
(* leaves the configuration and the input policy rows unchanged, and a     *)
(* second call with the same configuration and session input, directly or  *)
(* after a call for another session, returns the result of the first.      *)
(***************************************************************************)
CallKeepsArguments == config' = config /\ input' = input

SecondCallSameResult ==
  pc' = "repeated" =>
    /\ result' = result
    /\ resultAll' = resultAll
    /\ resultImmediate' = resultImmediate

FailsOn(rule, policy) ==
  \/ rule.condition.op = "syntax"
  \/ /\ rule.condition.op \in {"eq", "and", "or"}
     /\ EvalExpr(rule.condition, policy) = "throw"

\* the rules whose condition raises an exception on every row of the batch
FailingRules ==
  {j \in 1..Len(config.calculationRules) :
     \A i \in 1..NAll : FailsOn(config.calculationRules[j], input.policies[i])}

ConfigWithoutFailingRules ==
  [config EXCEPT
     !.calculationRules =
        FilterIdx(config.calculationRules,
                  (1..Len(config.calculationRules)) \ FailingRules, 1)]

FailingRulesAddNothing(run) ==
  run.res =
    calculateIncentiveForSubset(ConfigWithoutFailingRules, input, run.subset)

C21_FailureIsNoMatch ==
  Done => \A k \in 1..2 : FailingRulesAddNothing(Runs[k])

\* a passing batch under a configuration with a malformed rule and a rule
\* naming an unknown field, both with an adjustment, where other rules pay
\* and charge
C21_Witness ==
  /\ Done
  /\ RunPassedGate(Runs[1])
  /\ \E j, k \in FailingRules :
       /\ config.calculationRules[j].condition.op = "syntax"
       /\ config.calculationRules[j].adjustment # 0
       /\ config.calculationRules[k].condition.op = "eq"
       /\ config.calculationRules[k].adjustment # 0
  /\ RLt(Zero, resultAll.totalPayouts)
  /\ RLt(Zero, resultAll.totalPenalties)
  /\ NAll >= 2

(***************************************************************************)
(* C22: every call returns rows in which all derived fields (ape,          *)
(* additionalPayout, totalPenalty, totalIncentive, isDeferred) are set     *)
(* from this call's computation, on the gate-pass and the gate-fail        *)
(* outcome alike; no returned row lacks a derived field.  Stated for the   *)
(* calculator called by the user screen.                                   *)
(***************************************************************************)
DerivedFields ==
  {"ape", "additionalPayout", "totalPenalty", "totalIncentive", "isDeferred"}

Calculated == pc \in {"done", "repeated"}

RowFullyDerived(row) ==
  /\ DerivedFields \subseteq DOMAIN row
  /\ row["ape"] = Num(calculateAPE(row))
  /\ TypeOf(row["additionalPayout"]) = "number"
  /\ TypeOf(row["totalPenalty"]) = "number"
  /\ TypeOf(row["totalIncentive"]) = "number"
  /\ TypeOf(row["isDeferred"]) = "boolean"

C22_DerivedFieldsSet ==
  Calculated => \A i \in 1..Len(result.policies) :
                  RowFullyDerived(result.policies[i])

\* the same statement for the rows returned by the two-pass calculator
TwoPassRowsFullyDerived ==
  Done => \A i \in 1..Len(result.policies) :
            RowFullyDerived(result.policies[i])

(***************************************************************************)
(* C23: the shared configuration and its persisted copy change only        *)
(* through handleSave: admin edits without it leave both unchanged, and    *)
(* after handleSave both equal the edited local configuration.  (Loading   *)
(* the page reads the persisted copy and leaves it as it is.)              *)
(***************************************************************************)
EditsStayLocal ==
  ~(handleSave \/ reload) => (config' = config /\ storedConfig' = storedConfig)

SaveWritesBoth ==
  handleSave => /\ config' = localConfig
                /\ storedConfig' # Null
                /\ Parse(storedConfig') = localConfig
                /\ localConfig' = localConfig

ReloadReadsStorage == reload => storedConfig' = storedConfig

C23_SaveOnly == [][EditsStayLocal /\ SaveWritesBoth /\ ReloadReadsStorage]_vars

\* edits were saved: the shared and the persisted configuration are the
\* local one and differ from the configuration the screen started with
C23_Witness ==
  /\ pc = MaxSteps
  /\ config = localConfig
  /\ config \notin AdminConfigs \cup {defaultConfig}
  /\ storedConfig # Null
  /\ Parse(storedConfig) = localConfig

\* unsaved edits: the local configuration differs from the shared one
C23_WitnessUnsaved ==
  /\ pc = MaxSteps
  /\ config \in AdminConfigs
  /\ localConfig # config
  /\ storedConfig = StorageOf(config)

(***************************************************************************)
(* C24: the tier table is unordered input: for a table whose thresholds    *)
(* are distinct, the resolved slab amount, above-cap bonus included, is    *)
(* the same for every permutation of the table's entries.                  *)
(***************************************************************************)
DistinctThresholds ==
  \A i, j \in 1..Len(SelectedTiers) :
    SelectedTiers[i].nop = SelectedTiers[j].nop => i = j

\* the configuration whose tables hold the entries of the selected table
\* in the order f
Reordered(f) ==
  [config EXCEPT
     !.tierTables =
        [t \in 1..Len(config.tierTables) |->
           [config.tierTables[t] EXCEPT
              !.tiers = [i \in 1..Len(SelectedTiers) |-> SelectedTiers[f[i]]]]]]

SameSlabInAnyOrder ==
  NAll >= SpecGate(input.vintage) =>
    \A f \in Orders(Len(SelectedTiers)) :
      R(SlabIncentive(Reordered(f), input.organization, input.vintage, NAll))
        = resultAll.baseFromSlab

C24_AnyOrder == (Done /\ DistinctThresholds) => SameSlabInAnyOrder

\* a batch above the largest threshold of a table that is neither ascending
\* nor descending
C24_Witness ==
  /\ Done
  /\ DistinctThresholds
  /\ Len(SelectedTiers) >= 3
  /\ \E i \in 1..(Len(SelectedTiers) - 1) :
       SelectedTiers[i].nop < SelectedTiers[i + 1].nop
  /\ \E i \in 1..(Len(SelectedTiers) - 1) :
       SelectedTiers[i].nop > SelectedTiers[i + 1].nop
  /\ NAll > Largest(Thresholds)
  /\ resultAll.baseFromSlab
       = R(IncentiveAt(Largest(Thresholds)) + Excess(NAll) * 2000)
  /\ Excess(NAll) > 0

(***************************************************************************)
(* C25: in the two-pass calculator every policy whose product is I-Secure  *)
(* or I-Secure sachet (the names the policyName dropdown offers) and whose *)
(* frequency is Monthly is deferred: it is left out of the immediate-only  *)
(* run and its result row has isDeferred = true; every other policy is     *)
(* immediate.                                                              *)
(***************************************************************************)
\* the deferred rows by the product names of the dropdown
DropdownDeferredIdx ==
  {i \in 1..NAll :
     /\ input.policies[i]["policyName"] \in {Str("I-Secure"),
                                             Str("I-Secure sachet")}
     /\ input.policies[i]["paymentFrequency"] = Str("Monthly")}

C25_DeferredByDropdownName ==
  Done =>
    /\ \A i \in 1..NAll :
         result.policies[i]["isDeferred"] = Bool(i \in DropdownDeferredIdx)
    /\ Len(resultImmediate.policies)
         = NAll - Cardinality(DropdownDeferredIdx)

(***************************************************************************)
(* C26: the user screen's eligibility indicator (policies.length >= 3)     *)
(* agrees with the calculator's gate for every vintage: a batch is zeroed  *)
(* by the minimum-count gate if and only if it has fewer than 3 policies.  *)
(***************************************************************************)
NoWarning == isEligible(input.policies)

SinglePassZeroed ==
  "totalRate" \notin DOMAIN spCalculateDynamicIncentives(config, input).breakdown

ScreenTiers ==
  LET found == spFindTierTable(config, input.organization, input.vintage)
  IN  IF found = <<>> THEN <<>> ELSE Head(found).tiers

TopThreshold == Largest({ScreenTiers[i].nop : i \in 1..Len(ScreenTiers)})

TopIncentive ==
  ScreenTiers[CHOOSE i \in 1..Len(ScreenTiers) :
                ScreenTiers[i].nop = TopThreshold].incentive

AboveDefaultCap ==
  /\ config.tierTables = defaultTierTables
  /\ ScreenTiers # <<>>
  /\ Len(input.policies) > TopThreshold

C27_SinglePassAboveCap ==
  (Calculated /\ AboveDefaultCap) =>
    result.breakdown.totalBase =
      R(TopIncentive + 2000 * (Len(input.policies) - TopThreshold))

(***************************************************************************)
(* C28: in the single-pass calculator, for every batch of at least three   *)
(* policies the earning pool (totalBase + totalPayouts - totalPenalties +  *)
(* atsIncentive) is split in proportion to policy counts: the deferred     *)
(* amount is deferredCount x pool / totalNOP, the released amount is       *)
(* (totalNOP - deferredCount) x pool / totalNOP, and the two add up to the *)
(* pool.                                                                   *)
(***************************************************************************)
ScreenPool ==
  RAdd(RSub(RAdd(result.breakdown.totalBase, result.breakdown.totalPayouts),
            result.breakdown.totalPenalties),
       result.atsIncentive)

ScreenDeferredCount ==
  Cardinality({i \in 1..Len(result.policies) :
                 /\ result.policies[i]["policyName"] = Str("I-Secure")
                 /\ result.policies[i]["paymentFrequency"] = Str("Monthly")})

C28_ProportionalSplit ==
  (Calculated /\ Len(result.policies) >= 3) =>
    LET n == Len(result.policies)
    IN  /\ result.deferredIncentive =
             RDivInt(RMul(R(ScreenDeferredCount), ScreenPool), n)
        /\ result.totalIncentive =
             RDivInt(RMul(R(n - ScreenDeferredCount), ScreenPool), n)
        /\ RAdd(result.totalIncentive, result.deferredIncentive) = ScreenPool

C28_Witness ==
  /\ Calculated
  /\ Len(result.policies) >= 3
  /\ ScreenDeferredCount >= 1
  /\ ScreenDeferredCount < Len(result.policies)
  /\ result.atsIncentive # Zero
  /\ result.breakdown.totalPayouts # Zero
  /\ result.deferredIncentive # Zero

(***************************************************************************)
(* C29: whenever the full batch passes the gate, the aggregates returned   *)
(* by the two-pass calculator are mutually consistent: the breakdown's     *)
(* payouts and penalties are the sums of the rows' additionalPayout and    *)
(* totalPenalty, atsIncentive is the multiplier times (totalBase +         *)
(* totalPayouts - totalPenalties), and totalBase + totalPayouts -          *)
(* totalPenalties + atsIncentive is the sum of the rows' totalIncentive,   *)
(* which is breakdown.totalRate times the number of policies.              *)
(***************************************************************************)
RowSum(field) ==
  RSum([i \in 1..Len(result.policies) |-> result.policies[i][field][2]])

PreAtsTotal ==
  RSub(RAdd(result.breakdown.totalBase, result.breakdown.totalPayouts),
       result.breakdown.totalPenalties)

FullBatchPassed ==
  /\ pc \in {"done", "repeated"}
  /\ gatePassed(input.vintage, Len(input.policies))

C29_AggregatesConsistent ==
  FullBatchPassed =>
    /\ result.breakdown.totalPayouts = RowSum("additionalPayout")
    /\ result.breakdown.totalPenalties = RowSum("totalPenalty")
    /\ result.atsIncentive =
         RMul(AtsMultiplier(config, result.averageTicketSize), PreAtsTotal)
    /\ RAdd(PreAtsTotal, result.atsIncentive) = RowSum("totalIncentive")
    /\ RowSum("totalIncentive") =
         RMul(result.breakdown.totalRate, R(Len(result.policies)))

C29_Witness ==
  /\ FullBatchPassed
  /\ result.breakdown.totalBase # Zero
  /\ result.breakdown.totalPayouts # Zero
  /\ result.breakdown.totalPenalties # Zero
  /\ result.atsIncentive # Zero
  /\ result.deferredIncentive # Zero
  /\ \E i, j \in 1..Len(result.policies) :
       result.policies[i]["totalIncentive"] # result.policies[j]["totalIncentive"]

(***************************************************************************)
(* The feedback loop of the user screen around the two-pass calculator:    *)
(* handleCalculate passes the editable rows to calculateDynamicIncentives  *)
(* and replaces them with the annotated rows it returns                    *)
(***************************************************************************)
\* A configuration whose rules read fields the calculator writes into the
\* returned rows: isDeferred is no key of an entered row, ape is the text
\* column of the entered row ("" until a calculation stores the number)
derivedRuleConfig ==
  [tierTables |-> defaultTierTables,
   calculationRules |->
     << Rule("rule-ekyc", Eq("ekyc", Bool(TRUE)), 2000, "payout"),
        Rule("rule-deferred", Eq("isDeferred", Bool(TRUE)), -500, "penalty"),
        Rule("rule-ape-missing", Eq("ape", Str("")), 250, "payout") >>,
   month |-> "Jan'26",
   organizations |-> <<"Inhouse", "Outsource">>,
   vintages |-> <<"0-3 Months", "More than 3 Months", "Tier 1", "Tier 2">>,
   atsTable |-> << A(20001, 1, 10), A(25000, 1, 4), A(40000, 2, 5) >>]

LoopConfigs == {editedConfig, derivedRuleConfig}

InitLoop ==
  /\ config \in LoopConfigs
  /\ \E organization \in Organizations, vintage \in Vintages,
        policies \in PolicyBatches :
       input = [organization |-> organization, vintage |-> vintage,
                policies |-> policies]
  /\ pc = "ready"
  /\ resultAll = NoResult
  /\ resultImmediate = NoResult
  /\ result = NoResult
  /\ localConfig = NotMounted
  /\ storedConfig = StorageOf(config)

\* handleCalculate: calculateDynamicIncentives(config, {...sessionInput,
\* policies}), setCalculationResult(result), setPolicies(result.policies)
handleCalculateTwoPass ==
  /\ pc = "ready"
  /\ resultAll' = calculateIncentiveForSubset(config, input, input.policies)
  /\ resultImmediate' =
       calculateIncentiveForSubset(config, input,
                                   immediatePolicies(input.policies))
  /\ result' = DeriveResult(resultAll', resultImmediate')
  /\ input' = [input EXCEPT !.policies = result'.policies]
  /\ pc' = "done"
  /\ UNCHANGED <<config, localConfig, storedConfig>>

\* handleCalculate pressed again, no cell edited in between
handleCalculateTwoPassAgain ==
  /\ pc = "done"
  /\ resultAll' = calculateIncentiveForSubset(config, input, input.policies)
  /\ resultImmediate' =
       calculateIncentiveForSubset(config, input,
                                   immediatePolicies(input.policies))
  /\ result' = DeriveResult(resultAll', resultImmediate')
  /\ input' = [input EXCEPT !.policies = result'.policies]
  /\ pc' = "repeated"
  /\ UNCHANGED <<config, localConfig, storedConfig>>

NextLoop == handleCalculateTwoPass \/ handleCalculateTwoPassAgain

SpecLoop == InitLoop /\ [][NextLoop]_vars

(***************************************************************************)
(* C30: recalculation is stable under the feedback loop: a second call of  *)
(* calculateDynamicIncentives on the rows returned by the first call, with *)
(* the same configuration and session, returns the same aggregates and the *)
(* same rows, for every rule set, including rules whose condition mentions *)
(* a derived field such as ape, totalIncentive or isDeferred.              *)
(***************************************************************************)
SecondCall == pc = "done" /\ pc' = "repeated"

C30_RecalculationStable ==
  [][SecondCall => (result' = result /\ input'.policies = input.policies)]_vars

====
